---- MODULE Spec2Model ----
(***************************************************************************)
(* Tool bridge of the Godot learning app (letta/tools.py).                 *)
(*                                                                         *)
(* Ten handlers translate string arguments into one HTTP request against   *)
(* the learning application and translate the HTTP outcome into a string.  *)
(* Python values are modelled as one-field records named after the Python  *)
(* type: [str |-> s], [int |-> n], [bool |-> b], [NoneType |-> TRUE],      *)
(* [list |-> <<v1, ...>>], [dict |-> << <<k1, v1>>, ... >>] (insertion     *)
(* order, distinct keys).  Text is a TLA+ string; positions are 0-based as *)
(* in Python.                                                              *)
(***************************************************************************)
EXTENDS Integers, Sequences, FiniteSets, TLC

(***************************************************************************)
(* Text helpers (Python slicing and str methods used by the handlers).     *)
(***************************************************************************)

\* s[i:i+1]: the character at 0-based position i, "" past the end.
Ch(s, i) == IF i >= 0 /\ i < Len(s) THEN SubSeq(s, i + 1, i + 1) ELSE ""

\* s[a:b]
Slice(s, a, b) == SubSeq(s, a + 1, IF b < Len(s) THEN b ELSE Len(s))

\* s.startswith(p)
StartsWith(s, p) == Len(p) <= Len(s) /\ SubSeq(s, 1, Len(p)) = p

\* p in s
Contains(s, p) == \E i \in 0..(Len(s) - Len(p)) : Slice(s, i, i + Len(p)) = p

\* json.decoder.WHITESPACE and str.strip() whitespace, on the modelled alphabet.
WS == {" ", "\t", "\n", "\r"}

Digits == {"0", "1", "2", "3", "4", "5", "6", "7", "8", "9"}

DigitVal(c) == CASE c = "0" -> 0 [] c = "1" -> 1 [] c = "2" -> 2 [] c = "3" -> 3
                 [] c = "4" -> 4 [] c = "5" -> 5 [] c = "6" -> 6 [] c = "7" -> 7
                 [] c = "8" -> 8 [] c = "9" -> 9

RECURSIVE SkipWs(_, _)
\* WHITESPACE.match(s, i).end()
SkipWs(s, i) == IF Ch(s, i) \in WS THEN SkipWs(s, i + 1) ELSE i

RECURSIVE LStrip(_)
LStrip(s) == IF Len(s) > 0 /\ Ch(s, 0) \in WS THEN LStrip(Tail(s)) ELSE s

RECURSIVE RStrip(_)
RStrip(s) == IF Len(s) > 0 /\ Ch(s, Len(s) - 1) \in WS
             THEN RStrip(SubSeq(s, 1, Len(s) - 1)) ELSE s

\* str.strip()
Strip(s) == RStrip(LStrip(s))

(***************************************************************************)
(* Python values.                                                          *)
(***************************************************************************)

PyStr(s) == [str |-> s]
PyInt(n) == [int |-> n]
PyBool(b) == [bool |-> b]
PyNone == [NoneType |-> TRUE]
PyList(q) == [list |-> q]
PyDict(q) == [dict |-> q]

\* type(v).__name__
TypeName(v) == CHOOSE t \in DOMAIN v : TRUE

IsStr(v) == DOMAIN v = {"str"}
IsDict(v) == DOMAIN v = {"dict"}

\* bool(v): Python truthiness
Truthy(v) == CASE DOMAIN v = {"str"} -> v.str # ""
               [] DOMAIN v = {"int"} -> v.int # 0
               [] DOMAIN v = {"bool"} -> v.bool
               [] DOMAIN v = {"NoneType"} -> FALSE
               [] DOMAIN v = {"list"} -> v.list # <<>>
               [] DOMAIN v = {"dict"} -> v.dict # <<>>

HasKey(pairs, k) == \E i \in 1..Len(pairs) : pairs[i][1] = k

\* d[k] for a key that is present
Lookup(pairs, k) == pairs[CHOOSE i \in 1..Len(pairs) : pairs[i][1] = k][2]

\* d[k] = v: replaces in place or appends (dicts keep insertion order)
Put(pairs, k, v) ==
    IF HasKey(pairs, k)
    THEN [i \in 1..Len(pairs) |-> IF pairs[i][1] = k THEN <<k, v>> ELSE pairs[i]]
    ELSE Append(pairs, <<k, v>>)

\* d.get(k, default)
DictGet(d, k, default) == IF HasKey(d.dict, k) THEN Lookup(d.dict, k) ELSE default

(***************************************************************************)
(* Exceptions: a class and the text str(e).                                *)
(***************************************************************************)

Exc(cls, text) == [cls |-> cls, text |-> text]

\* The classes below derive from Exception; KeyboardInterrupt and SystemExit
\* derive from BaseException only.
ExceptionClasses == {"JSONDecodeError", "AttributeError", "KeyError",
                     "ConnectionError", "Timeout"}

IsException(e) == e.cls \in ExceptionClasses

\* A computation either yields a value or raises.
Value(v) == [val |-> v]
Raise(e) == [exc |-> e]
Raised(r) == DOMAIN r = {"exc"}

(***************************************************************************)
(* json.loads / response.json(): the decoder, on integers, strings,        *)
(* true/false/null, arrays and objects.  Fractions, exponents, NaN,        *)
(* Infinity and \u escapes are outside the modelled alphabet.  A scan      *)
(* yields [ok |-> TRUE, v, next] or [ok |-> FALSE, msg, pos].              *)
(***************************************************************************)

Scanned(v, next) == [ok |-> TRUE, v |-> v, next |-> next]
ScanError(msg, pos) == [ok |-> FALSE, msg |-> msg, pos |-> pos]

\* The character an escape sequence \c stands for ("" when c is no escape).
Unescape(c) == CASE c = "\"" -> "\""
                 [] c = "\\" -> "\\"
                 [] c = "/" -> "/"
                 [] c = "n" -> "\n"
                 [] c = "r" -> "\r"
                 [] c = "t" -> "\t"
                 [] OTHER -> ""

RECURSIVE ScanString(_, _, _, _)
\* scanstring(s, end) in strict mode; begin is the position of the opening quote.
ScanString(s, i, acc, begin) ==
    LET c == Ch(s, i) IN
    IF c = "" THEN ScanError("Unterminated string starting at", begin)
    ELSE IF c = "\"" THEN Scanned(acc, i + 1)
    ELSE IF c \in {"\n", "\r", "\t"} THEN ScanError("Invalid control character at", i)
    ELSE IF c = "\\" THEN
        LET esc == Ch(s, i + 1) IN
        IF esc = "" THEN ScanError("Unterminated string starting at", begin)
        ELSE IF Unescape(esc) = "" THEN ScanError("Invalid \\escape", i)
        ELSE ScanString(s, i + 2, acc \o Unescape(esc), begin)
    ELSE ScanString(s, i + 1, acc \o c, begin)

RECURSIVE ScanDigits(_, _, _)
\* the digits matched by [1-9]\d* from position i on, as a number
ScanDigits(s, i, n) ==
    IF Ch(s, i) \in Digits THEN ScanDigits(s, i + 1, 10 * n + DigitVal(Ch(s, i)))
    ELSE Scanned(n, i)

\* NUMBER_RE = (-?(?:0|[1-9]\d*)) without fraction or exponent
ScanNumber(s, i) ==
    LET neg == Ch(s, i) = "-"
        j == IF neg THEN i + 1 ELSE i
        r == IF Ch(s, j) = "0" THEN Scanned(0, j + 1) ELSE ScanDigits(s, j, 0)
    IN Scanned(PyInt(IF neg THEN 0 - r.v ELSE r.v), r.next)

RECURSIVE ScanOnce(_, _)
RECURSIVE ArrayLoop(_, _, _)
RECURSIVE ObjectLoop(_, _, _)

\* JSONArray((s, end)): end is the position after '['.
JSONArray(s, end0) ==
    LET end == SkipWs(s, end0) IN
    IF Ch(s, end) = "]" THEN Scanned(PyList(<<>>), end + 1)
    ELSE ArrayLoop(s, end, <<>>)

ArrayLoop(s, end, acc) ==
    LET r == ScanOnce(s, end) IN
    IF ~r.ok THEN r
    ELSE LET e1 == SkipWs(s, r.next)
             c == Ch(s, e1)
             values == Append(acc, r.v)
         IN IF c = "]" THEN Scanned(PyList(values), e1 + 1)
            ELSE IF c # "," THEN ScanError("Expecting ',' delimiter", e1)
            ELSE ArrayLoop(s, SkipWs(s, e1 + 1), values)

\* JSONObject((s, end)): end is the position after '{'.
JSONObject(s, end0) ==
    LET end == SkipWs(s, end0)
        c == Ch(s, end)
    IN IF c = "}" THEN Scanned(PyDict(<<>>), end + 1)
       ELSE IF c # "\""
            THEN ScanError("Expecting property name enclosed in double quotes", end)
       ELSE ObjectLoop(s, end + 1, <<>>)

\* One "key": value pair; i is the position after the key's opening quote.
ObjectLoop(s, i, pairs) ==
    LET k == ScanString(s, i, "", i - 1) IN
    IF ~k.ok THEN k
    ELSE LET e1 == SkipWs(s, k.next) IN
    IF Ch(s, e1) # ":" THEN ScanError("Expecting ':' delimiter", e1)
    ELSE LET r == ScanOnce(s, SkipWs(s, e1 + 1)) IN
    IF ~r.ok THEN r
    ELSE LET e2 == SkipWs(s, r.next)
             c == Ch(s, e2)
             items == Put(pairs, k.v, r.v)
             e3 == SkipWs(s, e2 + 1)
         IN IF c = "}" THEN Scanned(PyDict(items), e2 + 1)
            ELSE IF c # "," THEN ScanError("Expecting ',' delimiter", e2)
            ELSE IF Ch(s, e3) # "\""
                 THEN ScanError("Expecting property name enclosed in double quotes", e3)
            ELSE ObjectLoop(s, e3 + 1, items)

\* scan_once(s, idx); StopIteration(idx) surfaces as "Expecting value" at idx.
ScanOnce(s, idx) ==
    LET c == Ch(s, idx) IN
    IF c = "\"" THEN
        LET r == ScanString(s, idx + 1, "", idx) IN
        IF r.ok THEN Scanned(PyStr(r.v), r.next) ELSE r
    ELSE IF c = "{" THEN JSONObject(s, idx + 1)
    ELSE IF c = "[" THEN JSONArray(s, idx + 1)
    ELSE IF c = "n" /\ Slice(s, idx, idx + 4) = "null" THEN Scanned(PyNone, idx + 4)
    ELSE IF c = "t" /\ Slice(s, idx, idx + 4) = "true" THEN Scanned(PyBool(TRUE), idx + 4)
    ELSE IF c = "f" /\ Slice(s, idx, idx + 5) = "false" THEN Scanned(PyBool(FALSE), idx + 5)
    ELSE IF c \in Digits \/ (c = "-" /\ Ch(s, idx + 1) \in Digits) THEN ScanNumber(s, idx)
    ELSE ScanError("Expecting value", idx)

RECURSIVE CountNewlines(_, _)
\* doc.count('\n', 0, pos)
CountNewlines(s, pos) ==
    IF pos <= 0 THEN 0
    ELSE CountNewlines(s, pos - 1) + (IF Ch(s, pos - 1) = "\n" THEN 1 ELSE 0)

RECURSIVE LastNewline(_, _)
\* doc.rfind('\n', 0, pos), -1 when there is none
LastNewline(s, pos) ==
    IF pos <= 0 THEN 0 - 1
    ELSE IF Ch(s, pos - 1) = "\n" THEN pos - 1 ELSE LastNewline(s, pos - 1)

\* str(JSONDecodeError(msg, doc, pos))
DecodeErrorText(msg, doc, pos) ==
    msg \o ": line " \o ToString(CountNewlines(doc, pos) + 1)
        \o " column " \o ToString(pos - LastNewline(doc, pos))
        \o " (char " \o ToString(pos) \o ")"

\* json.loads(s): the value, or JSONDecodeError
Loads(s) ==
    LET r == ScanOnce(s, SkipWs(s, 0)) IN
    IF ~r.ok THEN Raise(Exc("JSONDecodeError", DecodeErrorText(r.msg, s, r.pos)))
    ELSE LET end == SkipWs(s, r.next) IN
         IF end # Len(s)
         THEN Raise(Exc("JSONDecodeError", DecodeErrorText("Extra data", s, end)))
         ELSE Value(r.v)

(***************************************************************************)
(* json.dumps(v, indent=2): the encoder.                                   *)
(***************************************************************************)

\* ESCAPE_DCT on the modelled alphabet
EscapeChar(c) == CASE c = "\"" -> "\\\""
                   [] c = "\\" -> "\\\\"
                   [] c = "\n" -> "\\n"
                   [] c = "\r" -> "\\r"
                   [] c = "\t" -> "\\t"
                   [] OTHER -> c

RECURSIVE EscapeFrom(_, _)
EscapeFrom(s, i) ==
    IF i >= Len(s) THEN "" ELSE EscapeChar(Ch(s, i)) \o EscapeFrom(s, i + 1)

\* encode_basestring_ascii(s)
EncodeString(s) == "\"" \o EscapeFrom(s, 0) \o "\""

RECURSIVE Spaces(_)
Spaces(n) == IF n <= 0 THEN "" ELSE " " \o Spaces(n - 1)

\* '\n' + indent * level
NewlineIndent(indent, level) == "\n" \o Spaces(indent * level)

RECURSIVE Encode(_, _, _)
RECURSIVE EncodeItems(_, _, _, _)
RECURSIVE EncodePairs(_, _, _, _)

\* _iterencode_list body: the items from index i on, joined by the separator
EncodeItems(q, i, indent, level) ==
    IF i > Len(q) THEN ""
    ELSE (IF i = 1 THEN "" ELSE "," \o NewlineIndent(indent, level))
         \o Encode(q[i], indent, level) \o EncodeItems(q, i + 1, indent, level)

\* _iterencode_dict body
EncodePairs(q, i, indent, level) ==
    IF i > Len(q) THEN ""
    ELSE (IF i = 1 THEN "" ELSE "," \o NewlineIndent(indent, level))
         \o EncodeString(q[i][1]) \o ": " \o Encode(q[i][2], indent, level)
         \o EncodePairs(q, i + 1, indent, level)

\* _iterencode(v, level)
Encode(v, indent, level) ==
    CASE DOMAIN v = {"str"} -> EncodeString(v.str)
      [] DOMAIN v = {"int"} -> ToString(v.int)
      [] DOMAIN v = {"bool"} -> IF v.bool THEN "true" ELSE "false"
      [] DOMAIN v = {"NoneType"} -> "null"
      [] DOMAIN v = {"list"} ->
            IF v.list = <<>> THEN "[]"
            ELSE "[" \o NewlineIndent(indent, level + 1)
                     \o EncodeItems(v.list, 1, indent, level + 1)
                     \o NewlineIndent(indent, level) \o "]"
      [] DOMAIN v = {"dict"} ->
            IF v.dict = <<>> THEN "{}"
            ELSE "{" \o NewlineIndent(indent, level + 1)
                     \o EncodePairs(v.dict, 1, indent, level + 1)
                     \o NewlineIndent(indent, level) \o "}"

\* json.dumps(v, indent=indent)
Dumps(v, indent) == Encode(v, indent, 0)

(***************************************************************************)
(* HTTP: requests.get / requests.post and the response object.             *)
(***************************************************************************)

Get(url) == [method |-> "GET", url |-> url]
Post(url, json) == [method |-> "POST", url |-> url, json |-> json]

Response(status_code, text) == [status_code |-> status_code, text |-> text]

\* Mutant of Ok: only 200 counts as success.
Ok200Only(response) == response.status_code = 200

\* response.ok: raise_for_status() raises for 400 <= status_code < 600 only.
Ok(response) == ~(400 <= response.status_code /\ response.status_code < 600)

\* response.json()
ResponseJson(response) == Loads(response.text)

\* json.dumps(<expression that may raise>, indent=2)
DumpsOf(r) == IF Raised(r) THEN r ELSE Value(Dumps(r.val, 2))

\* os.getenv(name, default) for the one variable the handlers read
\* Mutant of Getenv: the variable is not consulted.
GetenvIgnored(environ, default) == default

\* os.getenv(name, default)
Getenv(environ, default) == IF environ.set THEN environ.val ELSE default

\* What reaches the caller of a handler.
Returned(s) == [kind |-> "return", val |-> s]
Propagated(e) == [kind |-> "raise", exc |-> e]
NoResult == [kind |-> "none"]

\* Mutant of TryExcept: except requests.RequestException, so that only
\* transport errors are caught.
TryExceptTransportOnly(body, prefix) ==
    IF ~Raised(body) THEN Returned(body.val)
    ELSE IF body.exc.cls \in {"ConnectionError", "Timeout"}
         THEN Returned(prefix \o body.exc.text)
    ELSE Propagated(body.exc)

\* try: <body> except Exception as e: return f"{prefix}{e}"
TryExcept(body, prefix) ==
    IF ~Raised(body) THEN Returned(body.val)
    ELSE IF IsException(body.exc) THEN Returned(prefix \o body.exc.text)
    ELSE Propagated(body.exc)

\* Mutant of MethodGet: v[k], which raises KeyError for a missing key.
MethodGetItem(v, k, default) ==
    IF IsDict(v) /\ HasKey(v.dict, k) THEN Value(Lookup(v.dict, k))
    ELSE Raise(Exc("KeyError", "'" \o k \o "'"))

\* v.get(k, default) on an arbitrary value: AttributeError unless v is a dict
MethodGet(v, k, default) ==
    IF IsDict(v) THEN Value(DictGet(v, k, default))
    ELSE Raise(Exc("AttributeError",
                   "'" \o TypeName(v) \o "' object has no attribute 'get'"))

\* v.strip() on an arbitrary value
MethodStrip(v) ==
    IF IsStr(v) THEN Value(Strip(v.str))
    ELSE Raise(Exc("AttributeError",
                   "'" \o TypeName(v) \o "' object has no attribute 'strip'"))

(***************************************************************************)
(* The ten handlers of tools.py.  For each: the request it issues, and the *)
(* string it returns given http, the outcome of that request               *)
(* (Value(response) or Raise(exception)).                                  *)
(***************************************************************************)

DefaultAppUrl == "http://localhost:5173"

\* Mutant of ConnectPrefix: the generic prefix of add_lesson everywhere.
ConnectPrefixGeneric(app_url) == "Error: "

ConnectPrefix(app_url) == "Error connecting to learning app at " \o app_url \o ": "

get_topics_request(app_url) == Get(app_url \o "/api/letta?action=topics")

get_topics_result(app_url, http) ==
    TryExcept(IF Raised(http) THEN http
              ELSE IF Ok(http.val) THEN DumpsOf(ResponseJson(http.val))
              ELSE Value("Error: " \o ToString(http.val.status_code)),
              ConnectPrefix(app_url))

get_recent_conversations_request(app_url) == Get(app_url \o "/api/letta?action=notebooks")

get_recent_conversations_result(app_url, http) ==
    TryExcept(IF Raised(http) THEN http
              ELSE IF Ok(http.val) THEN DumpsOf(ResponseJson(http.val))
              ELSE Value("Error: " \o ToString(http.val.status_code)),
              ConnectPrefix(app_url))

get_conversation_details_request(app_url, topic_id) ==
    Get(app_url \o "/api/letta?action=notebook&topicId=" \o topic_id)

get_conversation_details_result(app_url, http) ==
    TryExcept(IF Raised(http) THEN http
              ELSE IF Ok(http.val) THEN DumpsOf(ResponseJson(http.val))
              ELSE Value("Error: " \o ToString(http.val.status_code)),
              ConnectPrefix(app_url))

get_current_extensions_request(app_url) == Get(app_url \o "/api/letta?action=extensions")

get_current_extensions_result(app_url, http) ==
    TryExcept(IF Raised(http) THEN http
              ELSE IF Ok(http.val) THEN DumpsOf(ResponseJson(http.val))
              ELSE Value("Error: " \o ToString(http.val.status_code)),
              ConnectPrefix(app_url))

get_student_progress_request(app_url) == Get(app_url \o "/api/progress")

get_student_progress_result(app_url, http) ==
    TryExcept(IF Raised(http) THEN http
              ELSE IF Ok(http.val) THEN DumpsOf(ResponseJson(http.val))
              ELSE Value("Error: " \o ToString(http.val.status_code)),
              ConnectPrefix(app_url))

get_student_notes_request(app_url) == Get(app_url \o "/api/progress")

\* Mutant of HasNotes: bool(notes), whitespace counts.
HasNotesUnstripped(notes) == Value(PyBool(Truthy(notes)))

\* bool(notes.strip()) if notes else False
HasNotes(notes) ==
    IF Truthy(notes)
    THEN LET stripped == MethodStrip(notes) IN
         IF Raised(stripped) THEN stripped ELSE Value(PyBool(stripped.val # ""))
    ELSE Value(PyBool(FALSE))

\* lines 144-151: the projection of the progress payload
NotesProjection(data, topic_id) ==
    LET topics == MethodGet(data, "topics", PyDict(<<>>)) IN
    IF Raised(topics) THEN topics ELSE
    LET topic_progress == MethodGet(topics.val, topic_id, PyDict(<<>>)) IN
    IF Raised(topic_progress) THEN topic_progress ELSE
    LET notes == MethodGet(topic_progress.val, "notes", PyStr("")) IN
    IF Raised(notes) THEN notes ELSE
    LET hasNotes == HasNotes(notes.val) IN
    IF Raised(hasNotes) THEN hasNotes ELSE
    Value(PyDict(<< <<"topicId", PyStr(topic_id)>>,
                    <<"notes", notes.val>>,
                    <<"hasNotes", hasNotes.val>> >>))

get_student_notes_result(app_url, topic_id, http) ==
    TryExcept(IF Raised(http) THEN http
              ELSE IF Ok(http.val)
                   THEN LET data == ResponseJson(http.val) IN
                        IF Raised(data) THEN data
                        ELSE DumpsOf(NotesProjection(data.val, topic_id))
              ELSE Value("Error: " \o ToString(http.val.status_code)),
              ConnectPrefix(app_url))

\* Mutant of add_resource_request: a type outside docs/source/book/video is
\* replaced by docs.
add_resource_request_Validated(app_url, topic_id, title, url, resource_type) ==
    Post(app_url \o "/api/letta",
         PyDict(<< <<"action", PyStr("add_resource")>>,
                   <<"topicId", PyStr(topic_id)>>,
                   <<"title", PyStr(title)>>,
                   <<"url", PyStr(url)>>,
                   <<"type", PyStr(IF resource_type \in {"docs", "source", "book", "video"}
                                   THEN resource_type ELSE "docs")>> >>))

add_resource_request(app_url, topic_id, title, url, resource_type) ==
    Post(app_url \o "/api/letta",
         PyDict(<< <<"action", PyStr("add_resource")>>,
                   <<"topicId", PyStr(topic_id)>>,
                   <<"title", PyStr(title)>>,
                   <<"url", PyStr(url)>>,
                   <<"type", PyStr(resource_type)>> >>))

add_resource_result(app_url, http) ==
    TryExcept(IF Raised(http) THEN http
              ELSE IF Ok(http.val) THEN DumpsOf(ResponseJson(http.val))
              ELSE Value("Error: " \o ToString(http.val.status_code)
                                   \o " - " \o http.val.text),
              ConnectPrefix(app_url))

add_code_example_request(app_url, topic_id, title, language, code, explanation) ==
    Post(app_url \o "/api/letta",
         PyDict(<< <<"action", PyStr("add_code_example")>>,
                   <<"topicId", PyStr(topic_id)>>,
                   <<"title", PyStr(title)>>,
                   <<"language", PyStr(language)>>,
                   <<"code", PyStr(code)>>,
                   <<"explanation", PyStr(explanation)>> >>))

\* Mutant of add_code_example_result: the error string of the read handlers.
add_code_example_result_NoBody(app_url, http) ==
    TryExcept(IF Raised(http) THEN http
              ELSE IF Ok(http.val) THEN DumpsOf(ResponseJson(http.val))
              ELSE Value("Error: " \o ToString(http.val.status_code)),
              ConnectPrefix(app_url))

add_code_example_result(app_url, http) ==
    TryExcept(IF Raised(http) THEN http
              ELSE IF Ok(http.val) THEN DumpsOf(ResponseJson(http.val))
              ELSE Value("Error: " \o ToString(http.val.status_code)
                                   \o " - " \o http.val.text),
              ConnectPrefix(app_url))

\* Mutant of ParseList: the argument is passed on unparsed.
ParseListAsIs(x) == Value(x)

\* Mutant of ParseList: a text that does not parse is passed on as it is.
ParseListLenient(x) ==
    IF IsStr(x) /\ ~Raised(Loads(x.str)) THEN Loads(x.str) ELSE Value(x)

\* json.loads(x) if isinstance(x, str) else x
ParseList(x) == IF IsStr(x) THEN Loads(x.str) ELSE Value(x)

\* lines 269-288: the three arguments are parsed in order, then the POST is
\* built; the first parse failure raises and nothing is posted.
add_lesson_request(app_url, a) ==
    LET concepts_list == ParseList(a.concepts) IN
    IF Raised(concepts_list) THEN concepts_list ELSE
    LET exercises_list == ParseList(a.exercises) IN
    IF Raised(exercises_list) THEN exercises_list ELSE
    LET connections_list == ParseList(a.connections) IN
    IF Raised(connections_list) THEN connections_list ELSE
    Value(Post(app_url \o "/api/letta/lessons",
               PyDict(<< <<"topicId", PyStr(a.topic_id)>>,
                         <<"title", PyStr(a.title)>>,
                         <<"difficulty", PyStr(a.difficulty)>>,
                         <<"content",
                           PyDict(<< <<"introduction", PyStr(a.introduction)>>,
                                     <<"concepts", concepts_list.val>>,
                                     <<"explanation", PyStr(a.explanation)>>,
                                     <<"exercises", exercises_list.val>>,
                                     <<"connections", connections_list.val>> >>)>>,
                         <<"generatedFor", PyStr(a.generated_for)>> >>)))

\* Mutant of add_lesson_result: another wording of the except clause.
add_lesson_result_Failed(app_url, http) ==
    TryExcept(IF Raised(http) THEN http
              ELSE IF Ok(http.val) THEN DumpsOf(ResponseJson(http.val))
              ELSE Value("Error: " \o ToString(http.val.status_code)
                                   \o " - " \o http.val.text),
              "Failed to add lesson: ")

\* http is Raise(e) of the parse failure when no request was issued.
add_lesson_result(app_url, http) ==
    TryExcept(IF Raised(http) THEN http
              ELSE IF Ok(http.val) THEN DumpsOf(ResponseJson(http.val))
              ELSE Value("Error: " \o ToString(http.val.status_code)
                                   \o " - " \o http.val.text),
              "Error: ")

\* Mutant of get_lessons_request: the query is appended whatever topic_id is.
get_lessons_request_AlwaysQuery(app_url, topic_id) ==
    Get(app_url \o "/api/letta/lessons" \o "?topicId=" \o topic_id)

get_lessons_request(app_url, topic_id) ==
    Get(app_url \o "/api/letta/lessons"
        \o (IF topic_id # "" THEN "?topicId=" \o topic_id ELSE ""))

get_lessons_result(app_url, http) ==
    TryExcept(IF Raised(http) THEN http
              ELSE IF Ok(http.val) THEN DumpsOf(ResponseJson(http.val))
              ELSE Value("Error: " \o ToString(http.val.status_code)),
              ConnectPrefix(app_url))

(***************************************************************************)
(* The ten handlers that the factories make_<name>(app_url) of             *)
(* setup_agents.py build.  app_url is the argument of the factory.         *)
(***************************************************************************)

\* The prefix of the except clauses of the handlers the factories build.
FactoryConnectPrefix == "Error connecting to learning app: "

make_get_topics_request(app_url) == Get(app_url \o "/api/letta?action=topics")

make_get_topics_result(app_url, http) ==
    TryExcept(IF Raised(http) THEN http
              ELSE IF Ok(http.val) THEN DumpsOf(ResponseJson(http.val))
              ELSE Value("Error: " \o ToString(http.val.status_code)),
              FactoryConnectPrefix)

make_get_recent_conversations_request(app_url) ==
    Get(app_url \o "/api/letta?action=notebooks")

make_get_recent_conversations_result(app_url, http) ==
    TryExcept(IF Raised(http) THEN http
              ELSE IF Ok(http.val) THEN DumpsOf(ResponseJson(http.val))
              ELSE Value("Error: " \o ToString(http.val.status_code)),
              FactoryConnectPrefix)

make_get_conversation_details_request(app_url, topic_id) ==
    Get(app_url \o "/api/letta?action=notebook&topicId=" \o topic_id)

make_get_conversation_details_result(app_url, http) ==
    TryExcept(IF Raised(http) THEN http
              ELSE IF Ok(http.val) THEN DumpsOf(ResponseJson(http.val))
              ELSE Value("Error: " \o ToString(http.val.status_code)),
              FactoryConnectPrefix)

make_get_current_extensions_request(app_url) ==
    Get(app_url \o "/api/letta?action=extensions")

make_get_current_extensions_result(app_url, http) ==
    TryExcept(IF Raised(http) THEN http
              ELSE IF Ok(http.val) THEN DumpsOf(ResponseJson(http.val))
              ELSE Value("Error: " \o ToString(http.val.status_code)),
              FactoryConnectPrefix)

make_get_student_progress_request(app_url) == Get(app_url \o "/api/progress")

make_get_student_progress_result(app_url, http) ==
    TryExcept(IF Raised(http) THEN http
              ELSE IF Ok(http.val) THEN DumpsOf(ResponseJson(http.val))
              ELSE Value("Error: " \o ToString(http.val.status_code)),
              FactoryConnectPrefix)

make_get_student_notes_request(app_url) == Get(app_url \o "/api/progress")

\* setup_agents.py line 188: bool(notes.strip())
FactoryHasNotes(notes) ==
    LET stripped == MethodStrip(notes) IN
    IF Raised(stripped) THEN stripped ELSE Value(PyBool(stripped.val # ""))

\* setup_agents.py lines 182-189: the projection of the progress payload
FactoryNotesProjection(data, topic_id) ==
    LET topics == MethodGet(data, "topics", PyDict(<<>>)) IN
    IF Raised(topics) THEN topics ELSE
    LET topic_progress == MethodGet(topics.val, topic_id, PyDict(<<>>)) IN
    IF Raised(topic_progress) THEN topic_progress ELSE
    LET notes == MethodGet(topic_progress.val, "notes", PyStr("")) IN
    IF Raised(notes) THEN notes ELSE
    LET hasNotes == FactoryHasNotes(notes.val) IN
    IF Raised(hasNotes) THEN hasNotes ELSE
    Value(PyDict(<< <<"topicId", PyStr(topic_id)>>,
                    <<"notes", notes.val>>,
                    <<"hasNotes", hasNotes.val>> >>))

make_get_student_notes_result(app_url, topic_id, http) ==
    TryExcept(IF Raised(http) THEN http
              ELSE IF Ok(http.val)
                   THEN LET data == ResponseJson(http.val) IN
                        IF Raised(data) THEN data
                        ELSE DumpsOf(FactoryNotesProjection(data.val, topic_id))
              ELSE Value("Error: " \o ToString(http.val.status_code)),
              FactoryConnectPrefix)

make_add_resource_request(app_url, topic_id, title, url, resource_type) ==
    Post(app_url \o "/api/letta",
         PyDict(<< <<"action", PyStr("add_resource")>>,
                   <<"topicId", PyStr(topic_id)>>,
                   <<"title", PyStr(title)>>,
                   <<"url", PyStr(url)>>,
                   <<"type", PyStr(resource_type)>> >>))

make_add_resource_result(app_url, http) ==
    TryExcept(IF Raised(http) THEN http
              ELSE IF Ok(http.val) THEN DumpsOf(ResponseJson(http.val))
              ELSE Value("Error: " \o ToString(http.val.status_code)
                                   \o " - " \o http.val.text),
              FactoryConnectPrefix)

make_add_code_example_request(app_url, topic_id, title, language, code, explanation) ==
    Post(app_url \o "/api/letta",
         PyDict(<< <<"action", PyStr("add_code_example")>>,
                   <<"topicId", PyStr(topic_id)>>,
                   <<"title", PyStr(title)>>,
                   <<"language", PyStr(language)>>,
                   <<"code", PyStr(code)>>,
                   <<"explanation", PyStr(explanation)>> >>))

make_add_code_example_result(app_url, http) ==
    TryExcept(IF Raised(http) THEN http
              ELSE IF Ok(http.val) THEN DumpsOf(ResponseJson(http.val))
              ELSE Value("Error: " \o ToString(http.val.status_code)
                                   \o " - " \o http.val.text),
              FactoryConnectPrefix)

\* Mutant of make_add_lesson_request: connections is parsed by the learning
\* application, not by the handler.
make_add_lesson_request_ParseLate(app_url, a) ==
    CHOOSE request \in
      { IF Raised(concepts_list) THEN concepts_list
        ELSE IF Raised(exercises_list) THEN exercises_list
        ELSE Value(Post(app_url \o "/api/letta/lessons",
               PyDict(<< <<"topicId", PyStr(a.topic_id)>>,
                         <<"title", PyStr(a.title)>>,
                         <<"difficulty", PyStr(a.difficulty)>>,
                         <<"content",
                           PyDict(<< <<"introduction", PyStr(a.introduction)>>,
                                     <<"concepts", concepts_list.val>>,
                                     <<"explanation", PyStr(a.explanation)>>,
                                     <<"exercises", exercises_list.val>>,
                                     <<"connections", a.connections>> >>)>>,
                         <<"generatedFor", PyStr(a.generated_for)>> >>)))
        : concepts_list \in {ParseList(a.concepts)},
          exercises_list \in {ParseList(a.exercises)} } : TRUE

\* setup_agents.py lines 311-332: the three arguments are parsed in order,
\* then the POST is built; the first parse that raises is what the try
\* block raises.
make_add_lesson_request(app_url, a) ==
    CHOOSE request \in
      { IF Raised(concepts_list) THEN concepts_list
        ELSE IF Raised(exercises_list) THEN exercises_list
        ELSE IF Raised(connections_list) THEN connections_list
        ELSE Value(Post(app_url \o "/api/letta/lessons",
               PyDict(<< <<"topicId", PyStr(a.topic_id)>>,
                         <<"title", PyStr(a.title)>>,
                         <<"difficulty", PyStr(a.difficulty)>>,
                         <<"content",
                           PyDict(<< <<"introduction", PyStr(a.introduction)>>,
                                     <<"concepts", concepts_list.val>>,
                                     <<"explanation", PyStr(a.explanation)>>,
                                     <<"exercises", exercises_list.val>>,
                                     <<"connections", connections_list.val>> >>)>>,
                         <<"generatedFor", PyStr(a.generated_for)>> >>)))
        : concepts_list \in {ParseList(a.concepts)},
          exercises_list \in {ParseList(a.exercises)},
          connections_list \in {ParseList(a.connections)} } : TRUE

make_add_lesson_result(app_url, http) ==
    TryExcept(IF Raised(http) THEN http
              ELSE IF Ok(http.val) THEN DumpsOf(ResponseJson(http.val))
              ELSE Value("Error: " \o ToString(http.val.status_code)
                                   \o " - " \o http.val.text),
              "Error: ")

make_get_lessons_request(app_url, topic_id) ==
    Get(app_url \o "/api/letta/lessons"
        \o (IF topic_id # "" THEN "?topicId=" \o topic_id ELSE ""))

make_get_lessons_result(app_url, http) ==
    TryExcept(IF Raised(http) THEN http
              ELSE IF Ok(http.val) THEN DumpsOf(ResponseJson(http.val))
              ELSE Value("Error: " \o ToString(http.val.status_code)),
              FactoryConnectPrefix)

(***************************************************************************)
(* Inputs.                                                                 *)
(***************************************************************************)

\* Longest list of strings an agent serializes into an add_lesson argument.
MaxItems == 2

ItemNames == {"a", "b"}

RECURSIVE SeqsUpTo(_, _)
SeqsUpTo(S, n) ==
    IF n = 0 THEN {<<>>}
    ELSE LET shorter == SeqsUpTo(S, n - 1) IN
         shorter \cup {Append(q, x) : q \in {r \in shorter : Len(r) = n - 1}, x \in S}

RECURSIVE JoinQuoted(_, _)
JoinQuoted(q, i) ==
    IF i > Len(q) THEN ""
    ELSE (IF i = 1 THEN "" ELSE ",") \o EncodeString(q[i]) \o JoinQuoted(q, i + 1)

\* The compact serialization of a list of strings, e.g. ["a","b"]
SerializedArray(q) == "[" \o JoinQuoted(q, 1) \o "]"

ValidArrays == {SerializedArray(q) : q \in SeqsUpTo(ItemNames, MaxItems)}

\* Texts that are no JSON array of strings: not JSON at all, or another value.
MalformedArrays == {"not json", "[\"a\""}
OtherJson == {"{\"k\": 1}"}

ConceptArgs == {PyStr(t) : t \in ValidArrays \cup MalformedArrays \cup OtherJson}
                   \cup {PyList(<<PyStr("a")>>)}
ExerciseArgs == {PyStr("[\"e1\",\"e2\"]"), PyStr("[]"), PyStr("not json")}
ConnectionArgs == {PyStr("[\"signals\"]"), PyStr("[]"), PyStr("[1,")}

\* Topic ids are free text: an agent may pass any string.
Topics == {"X", "game-loop", "", "X&action=topics"}

ResourceTypes == {"docs", "podcast"}
Languages == {"gdscript", "rust"}

Environs == {[set |-> FALSE], [set |-> TRUE, val |-> "http://app:8080"]}

StatusCodes == {200, 201, 304, 404, 500}

JsonBodies == {
    "{\"id\": 7, \"status\":\"ok\"}",
    "[]",
    "{}",
    "\"Error: 7\"",
    "[\"a\", {\"b\": [1, null]}]",
    "{\"topics\": {}}",
    "{\"topics\": null}",
    "{\"topics\": {\"X\": {\"notes\": \"hi\"}}}",
    "{\"topics\": {\"X\": {\"notes\": \" \\n\"}}}",
    "{\"topics\": {\"X\": {\"notes\": \" a \"}}}",
    "{\"topics\": {\"X\": {\"notes\": 5}}}",
    "{\"topics\": {\"X\": {\"completed\": true}}}" }

NonJsonBodies == {"", "<html>Not Found</html>"}

Bodies == JsonBodies \cup NonJsonBodies

TransportErrors == {Exc("ConnectionError", "Connection refused"),
                    Exc("Timeout", "Read timed out.")}

(***************************************************************************)
(* State.                                                                  *)
(***************************************************************************)

VARIABLES
    environ,   \* LEARNING_APP_URL in os.environ: [set |-> FALSE] or [set |-> TRUE, val]
    pc,        \* "idle", "waiting" (blocked in requests.get/post) or "done"
    call,      \* the invocation: [op, args]
    app_url,   \* the handler's local app_url
    sent,      \* the HTTP requests this invocation has issued, in order
    http,      \* the outcome of the request: Value(response) or Raise(exception)
    result     \* what reaches the caller

\* Invocations that the agent runtime runs in parallel: each has the state of
\* one invocation above, in its own frame.
VARIABLES
    threads    \* thread |-> [pc, call, app_url, sent, http, result]

\* chat_with_agent.py, one run of the script.
VARIABLES
    agent_files,  \* agent_ids.json and agent_id.txt next to the script
    argv,         \* sys.argv[1:]
    stdin,        \* the number of input() calls answered so far
    cli,          \* the process: position, GIDEON_ID, CURATOR_ID, session, exit status
    outbox,       \* the messages sent to the agent platform, in order
    stdout        \* the notices printed, in order

\* The setup scripts setup_agent.py and setup_agents.py, run in the directory
\* of the chat script, and the Letta server they talk to.
VARIABLES
    setup,     \* the setup script that runs: its position and the names it has bound
    letta,     \* the server: the number of its next agent, the tools it rejects
    factory    \* the frame of a handler made by a factory of setup_agents.py

handler_vars == <<pc, call, app_url, sent, http, result>>
cli_vars == <<agent_files, argv, stdin, cli, outbox, stdout>>

setup_vars == <<setup, letta, factory>>
vars == <<environ, handler_vars, threads, cli_vars, setup_vars>>

NoCall == [op |-> "none"]
NoHttp == [pending |-> TRUE]

\* Largest number of invocations the agent runtime runs in parallel.
MaxThreads == 2

Threads == 1..MaxThreads

\* The frame of a thread that runs no handler.
IdleFrame == [pc |-> "idle", call |-> NoCall, app_url |-> "", sent |-> <<>>,
              http |-> NoHttp, result |-> NoResult]

NoFile == [exists |-> FALSE]
File(text) == [exists |-> TRUE, text |-> text]

\* The script has not been started.
CliNotStarted ==
    /\ agent_files = [json |-> NoFile, txt |-> NoFile]
    /\ argv = <<>>
    /\ stdin = 0
    /\ cli = [pc |-> "not started"]
    /\ outbox = <<>>
    /\ stdout = <<>>
    /\ setup = [pc |-> "not started", run |-> 0]
    /\ letta = [next_id |-> 1, rejects |-> {}]
    /\ factory = IdleFrame

Init ==
    /\ environ \in Environs
    /\ pc = "idle"
    /\ call = NoCall
    /\ app_url = ""
    /\ sent = <<>>
    /\ http = NoHttp
    /\ result = NoResult
    /\ threads = [t \in Threads |-> IdleFrame]
    /\ CliNotStarted

\* The process environment changes: between invocations, or while a handler
\* is blocked in its request (os.environ belongs to the process, not to the
\* handler).
SetEnv ==
    /\ environ' \in Environs \ {environ}
    /\ UNCHANGED <<pc, call, app_url, sent, http, result>>
    /\ UNCHANGED <<threads, cli_vars, setup_vars>>

\* Mutant of Issue: the handler probes the application before its request.
IssueAfterProbe(op, args, url, request) ==
    /\ pc = "idle"
    /\ call' = [op |-> op, args |-> args]
    /\ app_url' = url
    /\ sent' = sent \o <<Get(url), request>>
    /\ pc' = "waiting"
    /\ UNCHANGED <<environ, http, result>>
    /\ UNCHANGED <<threads, cli_vars, setup_vars>>

\* The handler has read app_url and is blocked in its one request.
Issue(op, args, url, request) ==
    /\ pc = "idle"
    /\ call' = [op |-> op, args |-> args]
    /\ app_url' = url
    /\ sent' = Append(sent, request)
    /\ pc' = "waiting"
    /\ UNCHANGED <<environ, http, result>>
    /\ UNCHANGED <<threads, cli_vars, setup_vars>>

get_topics ==
    LET url == Getenv(environ, DefaultAppUrl) IN
    Issue("get_topics", <<>>, url, get_topics_request(url))

get_recent_conversations ==
    LET url == Getenv(environ, DefaultAppUrl) IN
    Issue("get_recent_conversations", <<>>, url, get_recent_conversations_request(url))

get_conversation_details ==
    \E topic_id \in Topics :
        LET url == Getenv(environ, DefaultAppUrl) IN
        Issue("get_conversation_details", [topic_id |-> topic_id], url,
              get_conversation_details_request(url, topic_id))

get_current_extensions ==
    LET url == Getenv(environ, DefaultAppUrl) IN
    Issue("get_current_extensions", <<>>, url, get_current_extensions_request(url))

get_student_progress ==
    LET url == Getenv(environ, DefaultAppUrl) IN
    Issue("get_student_progress", <<>>, url, get_student_progress_request(url))

get_student_notes ==
    \E topic_id \in Topics :
        LET url == Getenv(environ, DefaultAppUrl) IN
        Issue("get_student_notes", [topic_id |-> topic_id], url,
              get_student_notes_request(url))

add_resource ==
    \E topic_id \in {"signals"}, title \in {"Godot Signals Docs"},
       url \in {"https://docs.godotengine.org/"}, resource_type \in ResourceTypes :
        LET base == Getenv(environ, DefaultAppUrl) IN
        Issue("add_resource",
              [topic_id |-> topic_id, title |-> title, url |-> url,
               resource_type |-> resource_type],
              base, add_resource_request(base, topic_id, title, url, resource_type))

add_code_example ==
    \E topic_id \in {"signals"}, title \in {"Emit"}, language \in Languages,
       code \in {"emit_signal(\"hit\")"}, explanation \in {"Emits hit."} :
        LET url == Getenv(environ, DefaultAppUrl) IN
        Issue("add_code_example",
              [topic_id |-> topic_id, title |-> title, language |-> language,
               code |-> code, explanation |-> explanation],
              url,
              add_code_example_request(url, topic_id, title, language, code, explanation))

add_lesson ==
    /\ pc = "idle"
    /\ \E concepts \in ConceptArgs, exercises \in ExerciseArgs,
          connections \in ConnectionArgs :
        LET url == Getenv(environ, DefaultAppUrl)
            a == [topic_id |-> "game-loop", title |-> "Delta Time",
                  difficulty |-> "beginner", introduction |-> "Why",
                  concepts |-> concepts, explanation |-> "How",
                  exercises |-> exercises, connections |-> connections,
                  generated_for |-> "User asked"]
        IN \E request \in {add_lesson_request(url, a)} :
            IF Raised(request)
            THEN \* a parse failure: the except clause returns at once
                 /\ call' = [op |-> "add_lesson", args |-> a]
                 /\ app_url' = url
                 /\ result' = add_lesson_result(url, request)
                 /\ pc' = "done"
                 /\ UNCHANGED <<environ, sent, http>>
                 /\ UNCHANGED <<threads, cli_vars, setup_vars>>
            ELSE Issue("add_lesson", a, url, request.val)

get_lessons ==
    \E topic_id \in Topics :
        LET url == Getenv(environ, DefaultAppUrl) IN
        Issue("get_lessons", [topic_id |-> topic_id], url,
              get_lessons_request(url, topic_id))

\* The rest of the handler once requests.get/post has returned or raised.
Result(c, url, h) ==
    CASE c.op = "get_topics" -> get_topics_result(url, h)
      [] c.op = "get_recent_conversations" -> get_recent_conversations_result(url, h)
      [] c.op = "get_conversation_details" -> get_conversation_details_result(url, h)
      [] c.op = "get_current_extensions" -> get_current_extensions_result(url, h)
      [] c.op = "get_student_progress" -> get_student_progress_result(url, h)
      [] c.op = "get_student_notes" -> get_student_notes_result(url, c.args.topic_id, h)
      [] c.op = "add_resource" -> add_resource_result(url, h)
      [] c.op = "add_code_example" -> add_code_example_result(url, h)
      [] c.op = "add_lesson" -> add_lesson_result(url, h)
      [] c.op = "get_lessons" -> get_lessons_result(url, h)

\* The learning application answers.
ResponseArrives ==
    /\ pc = "waiting"
    /\ \E status_code \in StatusCodes, text \in Bodies :
        /\ http' = Value(Response(status_code, text))
        /\ result' = Result(call, app_url, http')
    /\ pc' = "done"
    /\ UNCHANGED <<environ, call, app_url, sent>>
    /\ UNCHANGED <<threads, cli_vars, setup_vars>>

\* Mutant of RequestFails: the handler tries the request a second time.
RequestFailsRetried ==
    /\ pc = "waiting"
    /\ IF Len(sent) = 1
       THEN /\ sent' = Append(sent, sent[1])
            /\ UNCHANGED <<environ, pc, call, app_url, http, result>>
            /\ UNCHANGED <<threads, cli_vars, setup_vars>>
       ELSE /\ \E e \in TransportErrors :
                /\ http' = Raise(e)
                /\ result' = Result(call, app_url, http')
            /\ pc' = "done"
            /\ UNCHANGED <<environ, call, app_url, sent>>
            /\ UNCHANGED <<threads, cli_vars, setup_vars>>

\* requests.get/post raises: connection refused, DNS failure, timeout.
RequestFails ==
    /\ pc = "waiting"
    /\ \E e \in TransportErrors :
        /\ http' = Raise(e)
        /\ result' = Result(call, app_url, http')
    /\ pc' = "done"
    /\ UNCHANGED <<environ, call, app_url, sent>>
    /\ UNCHANGED <<threads, cli_vars, setup_vars>>

\* The caller has the result; the handler's frame is gone.
Return ==
    /\ pc = "done"
    /\ pc' = "idle"
    /\ call' = NoCall
    /\ app_url' = ""
    /\ sent' = <<>>
    /\ http' = NoHttp
    /\ result' = NoResult
    /\ UNCHANGED environ
    /\ UNCHANGED <<threads, cli_vars, setup_vars>>

Next ==
    \/ SetEnv
    \/ get_topics
    \/ get_recent_conversations
    \/ get_conversation_details
    \/ get_current_extensions
    \/ get_student_progress
    \/ get_student_notes
    \/ add_resource
    \/ add_code_example
    \/ add_lesson
    \/ get_lessons
    \/ ResponseArrives
    \/ RequestFails
    \/ Return

Spec == Init /\ [][Next]_vars

(***************************************************************************)
(* Invocations in parallel.  The agent runtime may call several tools at   *)
(* once; each call runs a handler in its own frame, and the handlers share *)
(* the process environment only.                                           *)
(***************************************************************************)

\* The handler up to its request: the request, or the exception raised
\* before any request was made.
Request(c, url) ==
    CASE c.op = "get_topics" -> Value(get_topics_request(url))
      [] c.op = "get_recent_conversations" -> Value(get_recent_conversations_request(url))
      [] c.op = "get_conversation_details" ->
            Value(get_conversation_details_request(url, c.args.topic_id))
      [] c.op = "get_current_extensions" -> Value(get_current_extensions_request(url))
      [] c.op = "get_student_progress" -> Value(get_student_progress_request(url))
      [] c.op = "get_student_notes" -> Value(get_student_notes_request(url))
      [] c.op = "add_resource" ->
            Value(add_resource_request(url, c.args.topic_id, c.args.title,
                                       c.args.url, c.args.resource_type))
      [] c.op = "add_code_example" ->
            Value(add_code_example_request(url, c.args.topic_id, c.args.title,
                                           c.args.language, c.args.code,
                                           c.args.explanation))
      [] c.op = "add_lesson" -> add_lesson_request(url, c.args)
      [] c.op = "get_lessons" -> Value(get_lessons_request(url, c.args.topic_id))

LessonArgs(concepts) ==
    [topic_id |-> "game-loop", title |-> "Delta Time", difficulty |-> "beginner",
     introduction |-> "Why", concepts |-> PyStr(concepts), explanation |-> "How",
     exercises |-> PyStr("[\"e1\",\"e2\"]"), connections |-> PyStr("[\"signals\"]"),
     generated_for |-> "User asked"]

\* The calls the runtime makes in parallel.
ParallelCalls ==
    { [op |-> "get_topics", args |-> <<>>],
      [op |-> "get_student_notes", args |-> [topic_id |-> "X"]],
      [op |-> "add_resource",
       args |-> [topic_id |-> "signals", title |-> "Godot Signals Docs",
                 url |-> "https://docs.godotengine.org/", resource_type |-> "docs"]],
      [op |-> "add_lesson", args |-> LessonArgs("[\"a\",\"b\"]")],
      [op |-> "add_lesson", args |-> LessonArgs("not json")] }

\* What the learning application answers to them.
ParallelResponses ==
    { Response(200, "{\"topics\": {\"X\": {\"notes\": \"hi\"}}}"),
      Response(404, "<html>Not Found</html>") }

\* Mutant of Store: app_url is a module global, written by every handler.
StoreGlobalUrl(t, frame) ==
    [u \in Threads |->
        IF u = t THEN frame
        ELSE IF threads[u].pc = "idle" THEN threads[u]
        ELSE [threads[u] EXCEPT !.app_url = frame.app_url]]

\* The locals of a handler (app_url, response, the parsed lists) live in the
\* frame of its own call.
Store(t, frame) == [threads EXCEPT ![t] = frame]

\* The outcomes of a request: an answer of the learning application, or an
\* exception of the transport.
ParallelOutcomes ==
    {Value(response) : response \in ParallelResponses}
        \cup {Raise(Exc("ConnectionError", "Connection refused"))}

\* Mutant of Invoke: a write is skipped when a running invocation has sent
\* the same record already.
InvokeDeduplicated(t) ==
    /\ threads[t].pc = "idle"
    /\ \E c \in ParallelCalls :
       \E url \in {Getenv(environ, DefaultAppUrl)} :
       \E request \in {Request(c, url)} :
        threads' = Store(t,
            IF Raised(request)
            THEN [pc |-> "raised", call |-> c, app_url |-> url, sent |-> <<>>,
                  http |-> request, result |-> NoResult]
            ELSE IF \E u \in Threads \ {t} : threads[u].sent = <<request.val>>
            THEN [pc |-> "done", call |-> c, app_url |-> url, sent |-> <<>>,
                  http |-> NoHttp, result |-> Returned("{}")]
            ELSE [pc |-> "waiting", call |-> c, app_url |-> url,
                  sent |-> <<request.val>>, http |-> NoHttp, result |-> NoResult])
    /\ UNCHANGED <<environ, handler_vars, cli_vars, setup_vars>>

\* Thread t enters a handler: app_url is read, the arguments are parsed and
\* the request is issued ("waiting"), or the parse has raised and the except
\* clause is next ("raised", with the exception in the http field).
Invoke(t) ==
    /\ threads[t].pc = "idle"
    /\ \E c \in ParallelCalls :
       \E url \in {Getenv(environ, DefaultAppUrl)} :
       \E request \in {Request(c, url)} :
        threads' = Store(t,
            IF Raised(request)
            THEN [pc |-> "raised", call |-> c, app_url |-> url, sent |-> <<>>,
                  http |-> request, result |-> NoResult]
            ELSE [pc |-> "waiting", call |-> c, app_url |-> url,
                  sent |-> <<request.val>>, http |-> NoHttp, result |-> NoResult])
    /\ UNCHANGED <<environ, handler_vars, cli_vars, setup_vars>>

\* The handler of thread t runs to its return: its request is answered or
\* raises, or the exception raised before the request is handled.
Complete(t) ==
    /\ threads[t].pc \in {"waiting", "raised"}
    /\ \E frame \in {threads[t]} :
       \E h \in (IF frame.pc = "raised" THEN {frame.http} ELSE ParallelOutcomes) :
       \E r \in {Result(frame.call, frame.app_url, h)} :
        threads' = Store(t, [frame EXCEPT !.pc = "done",
                                          !.http = IF frame.pc = "raised" THEN NoHttp ELSE h,
                                          !.result = r])
    /\ UNCHANGED <<environ, handler_vars, cli_vars, setup_vars>>

\* The runtime has the result of thread t.
Finish(t) ==
    /\ threads[t].pc = "done"
    /\ threads' = Store(t, IdleFrame)
    /\ UNCHANGED <<environ, handler_vars, cli_vars, setup_vars>>

ParallelNext ==
    \/ SetEnv
    \/ \E t \in Threads : Invoke(t)
    \/ \E t \in Threads : Complete(t)
    \/ \E t \in Threads : Finish(t)

Parallel == Init /\ [][ParallelNext]_vars

(***************************************************************************)
(* chat_with_agent.py: the agent ids are loaded when the module is         *)
(* imported, main() dispatches on the arguments, interactive() is the      *)
(* read-send loop.  A message is what client.agents.messages.create is     *)
(* called with: the agent id and the content.  The three prompts are       *)
(* written by their first instruction line.                                *)
(***************************************************************************)

LowerChar(c) ==
    CASE c = "A" -> "a" [] c = "B" -> "b" [] c = "C" -> "c" [] c = "D" -> "d"
      [] c = "E" -> "e" [] c = "F" -> "f" [] c = "G" -> "g" [] c = "H" -> "h"
      [] c = "I" -> "i" [] c = "J" -> "j" [] c = "K" -> "k" [] c = "L" -> "l"
      [] c = "M" -> "m" [] c = "N" -> "n" [] c = "O" -> "o" [] c = "P" -> "p"
      [] c = "Q" -> "q" [] c = "R" -> "r" [] c = "S" -> "s" [] c = "T" -> "t"
      [] c = "U" -> "u" [] c = "V" -> "v" [] c = "W" -> "w" [] c = "X" -> "x"
      [] c = "Y" -> "y" [] c = "Z" -> "z" [] OTHER -> c

RECURSIVE Lower(_)
\* str.lower()
Lower(s) == IF s = "" THEN "" ELSE LowerChar(Ch(s, 0)) \o Lower(Tail(s))

RECURSIVE Join(_, _)
\* sep.join(q)
Join(sep, q) ==
    IF q = <<>> THEN ""
    ELSE IF Len(q) = 1 THEN q[1]
    ELSE q[1] \o sep \o Join(sep, Tail(q))

\* x in args
In(x, args) == \E i \in 1..Len(args) : args[i] = x

\* args.index(x), 1-based, for an x that is in args
Index(args, x) == CHOOSE i \in 1..Len(args) :
                      args[i] = x /\ \A j \in 1..(i - 1) : args[j] # x

CuratorNotAvailable == "Curator agent not available. Run setup_agents.py first."
CurateAllPrompt == "Please perform a comprehensive curation session:"
CurateTopicPrompt(topic_id) ==
    "Please curate content specifically for the topic: " \o topic_id
AnalyzePrompt == "Please analyze Mark's overall learning progress:"

\* The effects of the functions below are on io = [outbox, stdout].
Printed(io, text) == [io EXCEPT !.stdout = Append(@, text)]

send_message(io, agent_id, content, agent_name) ==
    [io EXCEPT !.outbox = Append(@, [agent_id |-> agent_id, content |-> content])]

curate_all(io, CURATOR_ID) ==
    IF ~Truthy(CURATOR_ID) THEN Printed(io, CuratorNotAvailable)
    ELSE send_message(Printed(io, "Triggering full curation session with Curator..."),
                      CURATOR_ID, CurateAllPrompt, "Curator")

\* Mutant of curate_topic: the Curator id is not looked at.
curate_topic_Unguarded(io, CURATOR_ID, topic_id) ==
    send_message(Printed(io, "Curating content for topic: " \o topic_id \o "..."),
                 CURATOR_ID, CurateTopicPrompt(topic_id), "Curator")

curate_topic(io, CURATOR_ID, topic_id) ==
    IF ~Truthy(CURATOR_ID) THEN Printed(io, CuratorNotAvailable)
    ELSE send_message(Printed(io, "Curating content for topic: " \o topic_id \o "..."),
                      CURATOR_ID, CurateTopicPrompt(topic_id), "Curator")

analyze_progress(io, CURATOR_ID) ==
    IF ~Truthy(CURATOR_ID) THEN Printed(io, CuratorNotAvailable)
    ELSE send_message(Printed(io, "Analyzing learning progress..."),
                      CURATOR_ID, AnalyzePrompt, "Curator")

\* Longest argument list and longest interactive session that are explored.
MaxArgs == 2
MaxLines == 2

ArgWords == {"--curate", "--curator", "--analyze", "game-loop", "hello", "-v"}
Argvs == SeqsUpTo(ArgWords, MaxArgs)

AgentIdsJson == {"{\"gideon\": \"agent-g\", \"curator\": \"agent-c\"}",
                 "{\"gideon\": \"agent-g\"}",
                 "{\"curator\": \"agent-c\"}"}
AgentIdTxt == {"agent-old\n"}
AgentFiles == [json : {NoFile} \cup {File(t) : t \in AgentIdsJson},
               txt : {NoFile} \cup {File(t) : t \in AgentIdTxt}]

\* What input() yields: a line, or Ctrl-C (KeyboardInterrupt).
InputLines == {"", "quit", "Curate", "analyze", "curate  signals ", "hello"}
Inputs == {[line |-> l] : l \in InputLines} \cup {[interrupt |-> TRUE]}

\* chat_with_agent.py has been started: none of its module-level names is
\* bound and interactive() has not been called.
Started ==
    [pc |-> "load", GIDEON_ID |-> PyNone, CURATOR_ID |-> PyNone,
     mode |-> "none", agent_id |-> PyNone, agent_name |-> "",
     user_input |-> "", status |-> -1]

\* The script is about to be run; no tool handler is running.
ChatInit ==
    /\ environ = [set |-> FALSE]
    /\ pc = "idle"
    /\ call = NoCall
    /\ app_url = ""
    /\ sent = <<>>
    /\ http = NoHttp
    /\ result = NoResult
    /\ threads = [t \in Threads |-> IdleFrame]
    /\ agent_files \in AgentFiles
    /\ argv \in Argvs
    /\ stdin = 0
    /\ cli = Started
    /\ setup = [pc |-> "not started", run |-> 0]
    /\ letta = [next_id |-> 1, rejects |-> {}]
    /\ factory = IdleFrame
    /\ outbox = <<>>
    /\ stdout = <<>>

\* The process ends with the given exit status.
Exited(status) == [cli EXCEPT !.pc = "exited", !.status = status]

\* Mutant of LoadAgentIds: agent_id.txt is looked for first.
LoadAgentIdsLegacyFirst ==
    /\ cli.pc = "load"
    /\ IF agent_files.txt.exists
       THEN /\ cli' = [cli EXCEPT !.pc = "main",
                                  !.GIDEON_ID = PyStr(Strip(agent_files.txt.text)),
                                  !.CURATOR_ID = PyNone]
            /\ stdout' = Append(stdout, "Note: Using legacy single-agent setup. Run setup_agents.py for multi-agent features.")
       ELSE IF agent_files.json.exists
       THEN \E agent_ids \in {Loads(agent_files.json.text)} :
              IF Raised(agent_ids) \/ ~IsDict(agent_ids.val)
              THEN /\ cli' = Exited(1)
                   /\ UNCHANGED stdout
              ELSE /\ cli' = [cli EXCEPT !.pc = "main",
                                         !.GIDEON_ID = DictGet(agent_ids.val, "gideon", PyNone),
                                         !.CURATOR_ID = DictGet(agent_ids.val, "curator", PyNone)]
                   /\ UNCHANGED stdout
       ELSE /\ cli' = Exited(1)
            /\ stdout' = Append(stdout, "ERROR: Agent not found. Run setup_agents.py first.")
    /\ UNCHANGED <<environ, handler_vars, threads, setup_vars, agent_files, argv, stdin, outbox>>

\* lines 27-44: the agent ids are read from agent_ids.json, else from
\* agent_id.txt, else the script exits.  A file that json.load rejects
\* ends the script with a traceback.
LoadAgentIds ==
    /\ cli.pc = "load"
    /\ IF agent_files.json.exists
       THEN \E agent_ids \in {Loads(agent_files.json.text)} :
              IF Raised(agent_ids) \/ ~IsDict(agent_ids.val)
              THEN /\ cli' = Exited(1)
                   /\ UNCHANGED stdout
              ELSE /\ cli' = [cli EXCEPT !.pc = "main",
                                         !.GIDEON_ID = DictGet(agent_ids.val, "gideon", PyNone),
                                         !.CURATOR_ID = DictGet(agent_ids.val, "curator", PyNone)]
                   /\ UNCHANGED stdout
       ELSE IF agent_files.txt.exists
       THEN /\ cli' = [cli EXCEPT !.pc = "main",
                                  !.GIDEON_ID = PyStr(Strip(agent_files.txt.text)),
                                  !.CURATOR_ID = PyNone]
            /\ stdout' = Append(stdout, "Note: Using legacy single-agent setup. Run setup_agents.py for multi-agent features.")
       ELSE /\ cli' = Exited(1)
            /\ stdout' = Append(stdout, "ERROR: Agent not found. Run setup_agents.py first.")
    /\ UNCHANGED <<environ, handler_vars, threads, setup_vars, agent_files, argv, stdin, outbox>>

\* Mutant of Dispatch: --curate never takes a topic.
DispatchWithoutTopic(args) ==
    IF In("--curate", args) THEN [mode |-> "curate_all"]
    ELSE IF In("--curator", args) THEN [mode |-> "curator"]
    ELSE IF In("--analyze", args) THEN [mode |-> "analyze_progress"]
    ELSE IF Len(args) > 0 /\ ~StartsWith(args[1], "-")
    THEN [mode |-> "send_message", content |-> Join(" ", args)]
    ELSE [mode |-> "interactive"]

\* lines 178-203: the branch main() takes.
Dispatch(args) ==
    IF In("--curate", args)
    THEN LET idx == Index(args, "--curate") IN
         IF idx + 1 <= Len(args) /\ ~StartsWith(args[idx + 1], "-")
         THEN [mode |-> "curate_topic", topic_id |-> args[idx + 1]]
         ELSE [mode |-> "curate_all"]
    ELSE IF In("--curator", args) THEN [mode |-> "curator"]
    ELSE IF In("--analyze", args) THEN [mode |-> "analyze_progress"]
    ELSE IF Len(args) > 0 /\ ~StartsWith(args[1], "-")
    THEN [mode |-> "send_message", content |-> Join(" ", args)]
    ELSE [mode |-> "interactive"]

\* f"{agent_id}"
IdText(agent_id) == IF IsStr(agent_id) THEN agent_id.str ELSE "None"

\* interactive(agent_id, agent_name) up to its loop: the banner is printed.
EnterInteractive(io, agent_id, agent_name) ==
    Printed(Printed(io, "Connected to " \o agent_name \o ": " \o IdText(agent_id)),
            "Interactive mode with " \o agent_name \o ".")

\* What the branch d of main() does to io, for the ids loaded.
Run(d, io, GIDEON_ID, CURATOR_ID) ==
    CASE d.mode = "curate_topic" -> curate_topic(io, CURATOR_ID, d.topic_id)
      [] d.mode = "curate_all" -> curate_all(io, CURATOR_ID)
      [] d.mode = "curator" ->
            IF ~Truthy(CURATOR_ID) THEN Printed(io, CuratorNotAvailable)
            ELSE EnterInteractive(io, CURATOR_ID, "Curator")
      [] d.mode = "analyze_progress" -> analyze_progress(io, CURATOR_ID)
      [] d.mode = "send_message" ->
            send_message(Printed(io, "Connected to Gideon: " \o IdText(GIDEON_ID)),
                         GIDEON_ID, d.content, "Gideon")
      [] d.mode = "interactive" -> EnterInteractive(io, GIDEON_ID, "Gideon")

\* main(): one branch is taken.  A one-shot branch runs to the end of the
\* script; client.agents.messages.create may raise, which nothing in the
\* script catches.
main ==
    /\ cli.pc = "main"
    /\ \E d \in {Dispatch(argv)} :
       \E io \in {Run(d, [outbox |-> outbox, stdout |-> stdout],
                      cli.GIDEON_ID, cli.CURATOR_ID)} :
       \E delivered \in BOOLEAN :
        /\ outbox' = io.outbox
        /\ stdout' = io.stdout
        /\ (delivered \/ io.outbox # outbox)
        /\ cli' =
             IF io.outbox # outbox /\ ~delivered
             THEN [Exited(1) EXCEPT !.mode = d.mode]
             ELSE IF d.mode = "curator" /\ ~Truthy(cli.CURATOR_ID)
             THEN [Exited(1) EXCEPT !.mode = d.mode]
             ELSE IF d.mode = "curator"
             THEN [cli EXCEPT !.pc = "interactive", !.mode = d.mode,
                              !.agent_id = cli.CURATOR_ID, !.agent_name = "Curator"]
             ELSE IF d.mode = "interactive"
             THEN [cli EXCEPT !.pc = "interactive", !.mode = d.mode,
                              !.agent_id = cli.GIDEON_ID, !.agent_name = "Gideon"]
             ELSE [Exited(0) EXCEPT !.mode = d.mode]
    /\ UNCHANGED <<environ, handler_vars, threads, setup_vars, agent_files, argv, stdin>>

\* Mutant of Command: the commands are recognised in lower case only.
CommandCaseSensitive(io, line, agent_id, agent_name, CURATOR_ID) ==
    LET user_input == Strip(line) IN
    IF user_input = "" THEN io
    ELSE IF user_input = "quit" THEN io
    ELSE IF user_input = "curate" THEN curate_all(io, CURATOR_ID)
    ELSE IF user_input = "analyze" THEN analyze_progress(io, CURATOR_ID)
    ELSE IF StartsWith(user_input, "curate ")
    THEN curate_topic(io, CURATOR_ID, Strip(Slice(user_input, 7, Len(user_input))))
    ELSE send_message(io, agent_id, user_input, agent_name)

\* lines 157-171: what one input line does to io.
Command(io, line, agent_id, agent_name, CURATOR_ID) ==
    LET user_input == Strip(line) IN
    IF user_input = "" THEN io
    ELSE IF Lower(user_input) = "quit" THEN io
    ELSE IF Lower(user_input) = "curate" THEN curate_all(io, CURATOR_ID)
    ELSE IF Lower(user_input) = "analyze" THEN analyze_progress(io, CURATOR_ID)
    ELSE IF StartsWith(Lower(user_input), "curate ")
    THEN curate_topic(io, CURATOR_ID, Strip(Slice(user_input, 7, Len(user_input))))
    ELSE send_message(io, agent_id, user_input, agent_name)

\* One turn of the loop of interactive(): input() yields a line or is
\* interrupted by Ctrl-C.
ReadLine ==
    /\ cli.pc = "interactive"
    /\ stdin < MaxLines
    /\ stdin' = stdin + 1
    /\ \E in \in Inputs :
        IF "interrupt" \in DOMAIN in
        THEN /\ stdout' = Append(stdout, "Goodbye!")
             /\ cli' = Exited(0)
             /\ UNCHANGED outbox
        ELSE \E io \in {Command([outbox |-> outbox, stdout |-> stdout], in.line,
                                 cli.agent_id, cli.agent_name, cli.CURATOR_ID)} :
             \E delivered \in BOOLEAN :
                /\ outbox' = io.outbox
                /\ stdout' = io.stdout
                /\ (delivered \/ io.outbox # outbox)
                /\ cli' = [(IF io.outbox # outbox /\ ~delivered THEN Exited(1)
                            ELSE IF Lower(Strip(in.line)) = "quit" THEN Exited(0)
                            ELSE cli)
                           EXCEPT !.user_input = Strip(in.line)]
    /\ UNCHANGED <<environ, handler_vars, threads, setup_vars, agent_files, argv>>

\* input() finds the standard input closed: EOFError, which the loop does
\* not catch.
EndOfInput ==
    /\ cli.pc = "interactive"
    /\ cli' = Exited(1)
    /\ UNCHANGED <<environ, handler_vars, threads, setup_vars, agent_files, argv, stdin,
                   outbox, stdout>>

ChatNext ==
    \/ LoadAgentIds
    \/ main
    \/ ReadLine
    \/ EndOfInput

Chat == ChatInit /\ [][ChatNext]_vars

(***************************************************************************)
(* A handler of tools.py and the handler that the matching factory of      *)
(* setup_agents.py builds, called with the same arguments and base address *)
(* and meeting the same outcome of the request.                            *)
(***************************************************************************)

\* The handler of the factory up to its request.
FactoryRequest(c, url) ==
    CASE c.op = "get_topics" -> Value(make_get_topics_request(url))
      [] c.op = "get_recent_conversations" ->
            Value(make_get_recent_conversations_request(url))
      [] c.op = "get_conversation_details" ->
            Value(make_get_conversation_details_request(url, c.args.topic_id))
      [] c.op = "get_current_extensions" -> Value(make_get_current_extensions_request(url))
      [] c.op = "get_student_progress" -> Value(make_get_student_progress_request(url))
      [] c.op = "get_student_notes" -> Value(make_get_student_notes_request(url))
      [] c.op = "add_resource" ->
            Value(make_add_resource_request(url, c.args.topic_id, c.args.title,
                                            c.args.url, c.args.resource_type))
      [] c.op = "add_code_example" ->
            Value(make_add_code_example_request(url, c.args.topic_id, c.args.title,
                                                c.args.language, c.args.code,
                                                c.args.explanation))
      [] c.op = "add_lesson" -> make_add_lesson_request(url, c.args)
      [] c.op = "get_lessons" -> Value(make_get_lessons_request(url, c.args.topic_id))

\* The rest of the handler of the factory.
FactoryResult(c, url, h) ==
    CASE c.op = "get_topics" -> make_get_topics_result(url, h)
      [] c.op = "get_recent_conversations" -> make_get_recent_conversations_result(url, h)
      [] c.op = "get_conversation_details" -> make_get_conversation_details_result(url, h)
      [] c.op = "get_current_extensions" -> make_get_current_extensions_result(url, h)
      [] c.op = "get_student_progress" -> make_get_student_progress_result(url, h)
      [] c.op = "get_student_notes" ->
            make_get_student_notes_result(url, c.args.topic_id, h)
      [] c.op = "add_resource" -> make_add_resource_result(url, h)
      [] c.op = "add_code_example" -> make_add_code_example_result(url, h)
      [] c.op = "add_lesson" -> make_add_lesson_result(url, h)
      [] c.op = "get_lessons" -> make_get_lessons_result(url, h)

\* add_lesson with the three serialized arrays given.
LessonWith(concepts, exercises, connections) ==
    [op |-> "add_lesson",
     args |-> [topic_id |-> "game-loop", title |-> "Delta Time",
               difficulty |-> "beginner", introduction |-> "Why",
               concepts |-> concepts, explanation |-> "How",
               exercises |-> exercises, connections |-> connections,
               generated_for |-> "User asked"]]

\* The calls made of both handlers.
TwinCalls ==
    { [op |-> "get_topics", args |-> <<>>],
      [op |-> "get_recent_conversations", args |-> <<>>],
      [op |-> "get_conversation_details", args |-> [topic_id |-> "X"]],
      [op |-> "get_current_extensions", args |-> <<>>],
      [op |-> "get_student_progress", args |-> <<>>],
      [op |-> "get_student_notes", args |-> [topic_id |-> "X"]],
      [op |-> "add_resource",
       args |-> [topic_id |-> "signals", title |-> "Godot Signals Docs",
                 url |-> "https://docs.godotengine.org/", resource_type |-> "docs"]],
      [op |-> "add_code_example",
       args |-> [topic_id |-> "signals", title |-> "Emit", language |-> "gdscript",
                 code |-> "emit_signal(\"hit\")", explanation |-> "Emits hit."]],
      [op |-> "get_lessons", args |-> [topic_id |-> ""]],
      [op |-> "get_lessons", args |-> [topic_id |-> "X"]] }
    \cup { LessonWith(PyStr(concepts), PyStr(exercises), PyStr(connections)) :
             concepts \in {"[\"a\"]", "not json"},
             exercises \in {"[]", "[\"e1\""},
             connections \in {"[\"signals\"]", "[1,"} }
    \cup { LessonWith(PyList(<<PyStr("a")>>), PyStr("[]"), PyStr("[]")) }

\* What the learning application answers to them.
TwinBodies ==
    { "{\"id\": 7}",
      "{\"topics\": {\"X\": {\"notes\": \" a \"}}}",
      "{\"topics\": {\"X\": {\"notes\": null}}}",
      "{\"topics\": {\"X\": {\"notes\": 5}}}",
      "{\"topics\": {\"X\": {}}}",
      "<html>Not Found</html>" }

\* The outcomes of the request.
TwinOutcomes ==
    {Value(Response(status_code, text)) : status_code \in {200, 404}, text \in TwinBodies}
        \cup {Raise(e) : e \in TransportErrors}

\* A handler is entered: its frame once the request is out ("waiting"), or
\* once the parse has raised ("raised", with the exception in the http field).
Entered(c, url, request) ==
    IF Raised(request)
    THEN [pc |-> "raised", call |-> c, app_url |-> url, sent |-> <<>>,
          http |-> request, result |-> NoResult]
    ELSE [pc |-> "waiting", call |-> c, app_url |-> url, sent |-> <<request.val>>,
          http |-> NoHttp, result |-> NoResult]

\* Both handlers are called with the same arguments; the factory was given
\* the base address that the handler of tools.py reads from the environment.
TwinInvoke ==
    /\ pc = "idle"
    /\ \E c \in TwinCalls :
       \E url \in {Getenv(environ, DefaultAppUrl)} :
       \E request \in {Request(c, url)} :
       \E made \in {FactoryRequest(c, url)} :
       \E frame \in {Entered(c, url, request)} :
        /\ pc' = frame.pc
        /\ call' = c
        /\ app_url' = url
        /\ sent' = frame.sent
        /\ http' = frame.http
        /\ result' = NoResult
        /\ factory' = Entered(c, url, made)
    /\ UNCHANGED <<environ, threads, cli_vars, setup, letta>>

\* Both requests meet the same outcome, and each handler returns.
TwinComplete ==
    /\ pc \in {"waiting", "raised"}
    /\ \E outcome \in TwinOutcomes :
       \E h \in {IF pc = "raised" THEN http ELSE outcome} :
       \E g \in {IF factory.pc = "raised" THEN factory.http ELSE outcome} :
       \E r \in {Result(call, app_url, h)} :
       \E s \in {FactoryResult(call, app_url, g)} :
        /\ http' = h
        /\ result' = r
        /\ factory' = [factory EXCEPT !.pc = "done", !.http = g, !.result = s]
    /\ pc' = "done"
    /\ UNCHANGED <<environ, call, app_url, sent, threads, cli_vars, setup, letta>>

\* The callers have the results.
TwinReturn ==
    /\ pc = "done"
    /\ pc' = "idle"
    /\ call' = NoCall
    /\ app_url' = ""
    /\ sent' = <<>>
    /\ http' = NoHttp
    /\ result' = NoResult
    /\ factory' = IdleFrame
    /\ UNCHANGED <<environ, threads, cli_vars, setup, letta>>

TwinNext ==
    \/ TwinInvoke
    \/ TwinComplete
    \/ TwinReturn

Twin == Init /\ [][TwinNext]_vars

(***************************************************************************)
(* The setup scripts: setup_agent.py creates one agent and saves its id    *)
(* in agent_id.txt; setup_agents.py creates Gideon and Curator and saves   *)
(* their ids in agent_ids.json and Gideon's in agent_id.txt.  Of what the  *)
(* scripts print, the model keeps the questions they ask.                  *)
(***************************************************************************)

Scripts == {"setup_agent.py", "setup_agents.py"}

\* tool_factories: the names, in the order of the list.
tool_factories(script) ==
    IF script = "setup_agent.py"
    THEN <<"get_topics", "get_recent_conversations", "get_conversation_details",
           "get_current_extensions", "add_resource", "add_code_example">>
    ELSE <<"get_topics", "get_recent_conversations", "get_conversation_details",
           "get_current_extensions", "get_student_progress", "get_student_notes",
           "add_resource", "add_code_example", "add_lesson", "get_lessons">>

\* setup_agents.py line 518: the names whose tools Curator gets.
CuratorToolNames ==
    {"get_topics", "get_recent_conversations", "get_conversation_details",
     "get_current_extensions", "get_student_progress", "get_student_notes",
     "add_resource", "add_code_example", "add_lesson", "get_lessons"}

\* Number of runs of the setup scripts that are explored.
MaxRuns == 2

\* What the two health checks meet: a response, or an exception of requests.
HealthOutcomes ==
    {Value(Response(200, "")), Value(Response(503, "")),
     Raise(Exc("ConnectionError", "Connection refused"))}

\* What input() yields at a question: a line, or EOFError.
Answers == {"y", " Y ", "n", ""}
Replies == {[line |-> a] : a \in Answers} \cup {[eof |-> TRUE]}

\* The tools whose source the server rejects during a run.
RejectSets ==
    {{}, {"get_topics"}, {"get_current_extensions", "add_resource"}, CuratorToolNames}

\* sys.argv[1:] of setup_agent.py
SetupArgs == {<<>>, <<"http://localhost:5173">>}

\* sys.argv[1:] of the chat runs between the setup runs
ChatArgs == {<<"hello">>, <<"--analyze">>}

\* The id the server gives to the n-th object it creates.
AgentId(n) == "agent-" \o ToString(n)
BlockId(n) == "block-" \o ToString(n)

\* A setup script at the start of its main(): nothing checked, asked or
\* created yet.
AtMain(script, url) ==
    [pc |-> "check_letta", run |-> setup.run + 1, script |-> script,
     LEARNING_APP_URL |-> url, letta_check |-> Value(PyNone),
     app_check |-> Value(PyNone), asked |-> <<>>, proceed |-> "",
     blocks |-> <<>>, i |-> 1, tools |-> <<>>, curator_tools |-> <<>>,
     agents |-> <<>>, tested |-> <<>>, status |-> -1]

\* exit(status), or the end of the script, or an exception nothing catches.
SetupExited(status) == [setup EXCEPT !.pc = "exited", !.status = status]

\* The module-level code.  setup_agent.py lines 24-35: LEARNING_APP_URL is
\* the environment variable, else the first argument, else the script exits
\* with status 1.  setup_agents.py line 26: the variable or the default.
ModuleLevel(script, args) ==
    IF script = "setup_agent.py"
    THEN IF environ.set /\ environ.val # "" THEN AtMain(script, environ.val)
         ELSE IF Len(args) > 0 THEN AtMain(script, args[1])
         ELSE [AtMain(script, "") EXCEPT !.pc = "exited", !.status = 1]
    ELSE AtMain(script, Getenv(environ, "http://localhost:5999"))

\* A setup script is started, no other script of the directory running.
RunSetup ==
    /\ setup.pc \in {"not started", "exited"}
    /\ cli.pc \in {"not started", "exited"}
    /\ setup.run < MaxRuns
    /\ \E script \in Scripts, args \in SetupArgs, rejects \in RejectSets :
        /\ setup' = ModuleLevel(script, args)
        /\ letta' = [letta EXCEPT !.rejects = rejects]
    /\ UNCHANGED <<environ, handler_vars, threads, factory, cli_vars>>

\* Mutant of CheckLetta: an error status of the server is only reported.
CheckLettaLenient ==
    /\ setup.pc = "check_letta"
    /\ \E response \in HealthOutcomes :
        setup' = IF ~Raised(response)
                 THEN [setup EXCEPT !.pc = "check_app", !.letta_check = response]
                 ELSE [SetupExited(1) EXCEPT !.letta_check = response]
    /\ UNCHANGED <<environ, handler_vars, threads, factory, cli_vars, letta>>

\* main(), the check of the Letta server (setup_agent.py lines 397-411,
\* setup_agents.py lines 622-636): the script goes on when the response is
\* ok and exits with status 1 otherwise.
CheckLetta ==
    /\ setup.pc = "check_letta"
    /\ \E response \in HealthOutcomes :
        setup' = IF ~Raised(response) /\ Ok(response.val)
                 THEN [setup EXCEPT !.pc = "check_app", !.letta_check = response]
                 ELSE [SetupExited(1) EXCEPT !.letta_check = response]
    /\ UNCHANGED <<environ, handler_vars, threads, factory, cli_vars, letta>>

\* Where the creation starts.
FirstStep(script) == IF script = "setup_agents.py" THEN "blocks" ELSE "tools"

\* main(), the check of the learning app (setup_agent.py lines 413-426,
\* setup_agents.py lines 638-651): a response of any status lets the script
\* go on; after an exception the user is asked, and the script goes on when
\* the trimmed, lower-cased answer is y.
CheckApp ==
    /\ setup.pc = "check_app"
    /\ \E response \in HealthOutcomes :
        IF ~Raised(response)
        THEN setup' = [setup EXCEPT !.pc = FirstStep(setup.script),
                                    !.app_check = response]
        ELSE \E reply \in Replies :
             setup' =
               IF "eof" \in DOMAIN reply
               THEN [SetupExited(1) EXCEPT !.app_check = response,
                                           !.asked = Append(@, "Continue anyway? (y/n): ")]
               ELSE IF Lower(Strip(reply.line)) = "y"
               THEN [setup EXCEPT !.pc = FirstStep(setup.script),
                                  !.app_check = response,
                                  !.asked = Append(@, "Continue anyway? (y/n): "),
                                  !.proceed = Lower(Strip(reply.line))]
               ELSE [SetupExited(1) EXCEPT !.app_check = response,
                                           !.asked = Append(@, "Continue anyway? (y/n): "),
                                           !.proceed = Lower(Strip(reply.line))]
    /\ UNCHANGED <<environ, handler_vars, threads, factory, cli_vars, letta>>

\* setup_agents.py lines 468-482: the two shared memory blocks.  A call of
\* the client may raise, which ends the script.
CreateBlocks ==
    /\ setup.pc = "blocks"
    /\ \E created \in BOOLEAN :
        IF created
        THEN /\ setup' = [setup EXCEPT !.pc = "tools",
                                       !.blocks = <<BlockId(letta.next_id),
                                                    BlockId(letta.next_id + 1)>>]
             /\ letta' = [letta EXCEPT !.next_id = @ + 2]
        ELSE /\ setup' = SetupExited(1)
             /\ UNCHANGED letta
    /\ UNCHANGED <<environ, handler_vars, threads, factory, cli_vars>>

\* The step after the loop over tool_factories.
AfterTools(script) == IF script = "setup_agents.py" THEN "gideon" ELSE "agent"

\* Mutant of RegisterTool: a registration that fails ends the script.
RegisterToolFatal ==
    /\ setup.pc = "tools"
    /\ LET name == tool_factories(setup.script)[setup.i] IN
       setup' =
         IF name \in letta.rejects THEN SetupExited(1)
         ELSE [setup EXCEPT
                 !.i = @ + 1,
                 !.tools = Append(@, name),
                 !.curator_tools =
                     IF setup.script = "setup_agents.py" /\ name \in CuratorToolNames
                     THEN Append(@, name) ELSE @,
                 !.pc = IF setup.i = Len(tool_factories(setup.script))
                        THEN AfterTools(setup.script) ELSE "tools"]
    /\ UNCHANGED <<environ, handler_vars, threads, factory, cli_vars, letta>>

\* One turn of the loop over tool_factories (setup_agent.py lines 315-321,
\* setup_agents.py lines 507-523): the tool is registered and its name kept,
\* or the exception is printed and the loop goes on.
RegisterTool ==
    /\ setup.pc = "tools"
    /\ LET name == tool_factories(setup.script)[setup.i]
           registered == name \notin letta.rejects IN
       setup' = [setup EXCEPT
                   !.i = @ + 1,
                   !.tools = IF registered THEN Append(@, name) ELSE @,
                   !.curator_tools =
                       IF /\ registered
                          /\ setup.script = "setup_agents.py"
                          /\ name \in CuratorToolNames
                       THEN Append(@, name) ELSE @,
                   !.pc = IF setup.i = Len(tool_factories(setup.script))
                          THEN AfterTools(setup.script) ELSE "tools"]
    /\ UNCHANGED <<environ, handler_vars, threads, factory, cli_vars, letta>>

\* client.agents.create(name=..., tools=tools + ["web_search"], ...): the
\* agent exists on the server, or the call raises and the script ends.
AgentsCreate(name, tools, next) ==
    \E created \in BOOLEAN :
        IF created
        THEN /\ setup' = [setup EXCEPT
                            !.pc = next,
                            !.agents = Append(@, [name |-> name,
                                                  id |-> AgentId(letta.next_id),
                                                  tools |-> tools \o <<"web_search">>])]
             /\ letta' = [letta EXCEPT !.next_id = @ + 1]
        ELSE /\ setup' = SetupExited(1)
             /\ UNCHANGED letta

\* setup_agent.py lines 328-353
CreateAgent ==
    /\ setup.pc = "agent"
    /\ AgentsCreate("godot-learning-curator", setup.tools, "save")
    /\ UNCHANGED <<environ, handler_vars, threads, factory, cli_vars>>

\* setup_agents.py lines 530-542
CreateGideon ==
    /\ setup.pc = "gideon"
    /\ AgentsCreate("gideon-tutor", setup.tools, "curator")
    /\ UNCHANGED <<environ, handler_vars, threads, factory, cli_vars>>

\* setup_agents.py lines 553-564
CreateCurator ==
    /\ setup.pc = "curator"
    /\ AgentsCreate("curator-agent", setup.curator_tools, "save")
    /\ UNCHANGED <<environ, handler_vars, threads, factory, cli_vars>>

\* setup_agent.py lines 431-435: the id is written to agent_id.txt.
SaveAgentId ==
    /\ setup.pc = "save"
    /\ setup.script = "setup_agent.py"
    /\ agent_files' = [agent_files EXCEPT !.txt = File(setup.agents[1].id)]
    /\ setup' = [setup EXCEPT !.pc = "test"]
    /\ UNCHANGED <<environ, handler_vars, threads, factory, argv, stdin, cli, outbox,
                   stdout, letta>>

\* setup_agents.py lines 573-580: the dictionary that is saved.
agent_ids(gideon, curator, blocks) ==
    PyDict(<<<<"gideon", PyStr(gideon.id)>>,
             <<"curator", PyStr(curator.id)>>,
             <<"shared_blocks",
               PyDict(<<<<"learning_progress", PyStr(blocks[1])>>,
                        <<"curated_content", PyStr(blocks[2])>>>>)>>>>)

\* setup_agents.py lines 582-591: json.dump(agent_ids, f, indent=2) to
\* agent_ids.json, and Gideon's id to agent_id.txt.
SaveAgentIds ==
    /\ setup.pc = "save"
    /\ setup.script = "setup_agents.py"
    /\ \E text \in {Dumps(agent_ids(setup.agents[1], setup.agents[2], setup.blocks), 2)} :
        agent_files' = [json |-> File(text), txt |-> File(setup.agents[1].id)]
    /\ setup' = [setup EXCEPT !.pc = "test"]
    /\ UNCHANGED <<environ, handler_vars, threads, factory, argv, stdin, cli, outbox,
                   stdout, letta>>

\* The last question of main() (setup_agent.py lines 437-441,
\* setup_agents.py lines 674-678): on y each agent created gets a test
\* message; then the script ends.
TestAgents ==
    /\ setup.pc = "test"
    /\ \E reply \in Replies :
        setup' =
          IF "eof" \in DOMAIN reply
          THEN [SetupExited(1) EXCEPT !.asked = Append(@, "test? (y/n): ")]
          ELSE [SetupExited(0) EXCEPT
                  !.asked = Append(@, "test? (y/n): "),
                  !.tested = IF Lower(Strip(reply.line)) = "y"
                             THEN [k \in 1..Len(setup.agents) |-> setup.agents[k].id]
                             ELSE <<>>]
    /\ UNCHANGED <<environ, handler_vars, threads, factory, cli_vars, letta>>

\* python chat_with_agent.py <args>, no setup script running.
RunChat ==
    /\ setup.pc \in {"not started", "exited"}
    /\ cli.pc \in {"not started", "exited"}
    /\ \E args \in ChatArgs : argv' = args
    /\ cli' = Started
    /\ stdin' = 0
    /\ outbox' = <<>>
    /\ stdout' = <<>>
    /\ UNCHANGED <<environ, handler_vars, threads, setup_vars, agent_files>>

SetupInit ==
    /\ environ \in Environs
    /\ pc = "idle"
    /\ call = NoCall
    /\ app_url = ""
    /\ sent = <<>>
    /\ http = NoHttp
    /\ result = NoResult
    /\ threads = [t \in Threads |-> IdleFrame]
    /\ CliNotStarted

SetupNext ==
    \/ RunSetup
    \/ CheckLetta
    \/ CheckApp
    \/ CreateBlocks
    \/ RegisterTool
    \/ CreateAgent
    \/ CreateGideon
    \/ CreateCurator
    \/ SaveAgentId
    \/ SaveAgentIds
    \/ TestAgents
    \/ RunChat
    \/ LoadAgentIds
    \/ main

Setup == SetupInit /\ [][SetupNext]_vars

(***************************************************************************)
(* Vocabulary of the properties.                                           *)
(***************************************************************************)

ReadOps == {"get_topics", "get_recent_conversations", "get_conversation_details",
            "get_current_extensions", "get_student_progress", "get_student_notes",
            "get_lessons"}
WriteOps == {"add_resource", "add_code_example", "add_lesson"}

\* The invocation has ended.
Done == pc = "done"

\* The invocation has ended and its request was answered / raised.
Answered == Done /\ DOMAIN http = {"val"}
TransportFailed == Done /\ Raised(http)

StatusIn(lo, hi) == lo <= http.val.status_code /\ http.val.status_code <= hi

\* The texts among the add_lesson inputs that are not JSON.
NotJsonTexts == {"not json", "[\"a\"", "[1,"}

\* An add_lesson argument that is a string and not valid JSON.
Unparsable(x) == IsStr(x) /\ x.str \in NotJsonTexts

\* add_lesson was invoked with a serialized-array argument that is not JSON.
MalformedLessonCall ==
    /\ call.op = "add_lesson"
    /\ \/ Unparsable(call.args.concepts)
       \/ Unparsable(call.args.exercises)
       \/ Unparsable(call.args.connections)

\* The lists of strings whose serializations are among the add_lesson inputs.
KnownLists == SeqsUpTo(ItemNames, MaxItems) \cup {<<"e1", "e2">>, <<"signals">>}

\* The Python list of strings with the elements of q, in order.
ListOfStrings(q) == PyList([i \in 1..Len(q) |-> PyStr(q[i])])

\* x is the serialization of a list of strings.
IsSerializedList(x) == IsStr(x) /\ \E q \in KnownLists : x.str = SerializedArray(q)

\* x is the serialization of q, and v is the list q.
TransmitsAs(x, v) ==
    \A q \in KnownLists : x.str = SerializedArray(q) => v = ListOfStrings(q)

\* The content object of the lesson POST.
LessonContent == Lookup(sent[1].json.dict, "content")

\* A progress payload (an object) without an entry for the topic.
LacksTopic(payload, topic_id) ==
    /\ IsDict(payload)
    /\ \/ ~HasKey(payload.dict, "topics")
       \/ /\ IsDict(Lookup(payload.dict, "topics"))
          /\ ~HasKey(Lookup(payload.dict, "topics").dict, topic_id)

\* A progress payload from which the notes of the topic can be projected.
WellShapedProgress(payload, topic_id) ==
    \/ LacksTopic(payload, topic_id)
    \/ /\ IsDict(payload)
       /\ HasKey(payload.dict, "topics")
       /\ IsDict(Lookup(payload.dict, "topics"))
       /\ HasKey(Lookup(payload.dict, "topics").dict, topic_id)
       /\ LET entry == Lookup(Lookup(payload.dict, "topics").dict, topic_id) IN
          /\ IsDict(entry)
          /\ HasKey(entry.dict, "notes") => IsStr(Lookup(entry.dict, "notes"))

(***************************************************************************)
(* Properties.                                                             *)
(***************************************************************************)

\* C1: every invocation of the ten operations, whatever the arguments and the
\* HTTP outcome (JSON body, non-JSON or unexpectedly shaped body, error
\* status, transport exception), ends by returning a string: no exception
\* reaches the caller.
C1_AlwaysReturnsString ==
    Done => result.kind = "return" /\ result.val \in STRING

\* get_student_notes got a 200 whose JSON body has the wrong shape, and returned.
C1_Witness ==
    /\ Done
    /\ call.op = "get_student_notes"
    /\ http = Value(Response(200, "{\"topics\": null}"))
    /\ result = Returned(ConnectPrefix(app_url) \o "'NoneType' object has no attribute 'get'")

\* C2 (as stated): every invocation sends exactly one HTTP request.
C2_ExactlyOneRequest == Done => Len(sent) = 1

\* C2 (amended): an invocation never sends more than one HTTP request; it
\* sends exactly one, except an add_lesson invocation with an argument that
\* is not JSON, which sends none.
C2_OneRequestUnlessMalformed ==
    /\ Len(sent) <= 1
    /\ pc = "waiting" => Len(sent) = 1
    /\ Done => Len(sent) = (IF MalformedLessonCall THEN 0 ELSE 1)

\* add_lesson ended on a malformed argument without any request.
C2_Witness ==
    /\ Done
    /\ call.op = "add_lesson"
    /\ call.args.exercises = PyStr("not json")
    /\ IsSerializedList(call.args.concepts)
    /\ sent = <<>>

\* C3: a response with a status outside 200-299 (3xx included) yields a
\* returned string that starts with "Error:" and contains the status code.
C3_Non2xxIsStatusError ==
    (Answered /\ ~StatusIn(200, 299)) =>
        /\ result.kind = "return"
        /\ StartsWith(result.val, "Error:")
        /\ Contains(result.val, ToString(http.val.status_code))

C5_RoundTrip ==
    (Answered /\ StatusIn(200, 299) /\ http.val.text \in JsonBodies) =>
        /\ result.kind = "return"
        /\ Loads(result.val) = Loads(http.val.text)
        /\ result.val = Dumps(Loads(http.val.text).val, 2)

\* C5 (amended): the same for the nine operations other than
\* get_student_notes (which returns a projection of the body instead).
C5_RoundTripButNotes ==
    (Answered /\ StatusIn(200, 299) /\ http.val.text \in JsonBodies
        /\ call.op # "get_student_notes") =>
        /\ result.kind = "return"
        /\ Loads(result.val) = Loads(http.val.text)
        /\ ~Raised(Loads(result.val))
        /\ result.val = Dumps(Loads(http.val.text).val, 2)
        /\ http.val.text = "{\"id\": 7, \"status\":\"ok\"}"
              => result.val = "{\n  \"id\": 7,\n  \"status\": \"ok\"\n}"

\* The spec's scenario: add_resource against a server answering 200 with
\* {"id": 7, "status":"ok"}.
C5_Witness ==
    /\ Answered
    /\ call.op = "add_resource"
    /\ http = Value(Response(200, "{\"id\": 7, \"status\":\"ok\"}"))
    /\ result = Returned("{\n  \"id\": 7,\n  \"status\": \"ok\"\n}")

\* C6: on an HTTP error status (4xx, 5xx) a write operation returns exactly
\* "Error: <status code> - <response body>" and a read operation exactly
\* "Error: <status code>".
C6_ErrorStatusString ==
    (Answered /\ StatusIn(400, 599)) =>
        result = Returned(
            IF call.op \in WriteOps
            THEN "Error: " \o ToString(http.val.status_code) \o " - " \o http.val.text
            ELSE "Error: " \o ToString(http.val.status_code))

\* A write and its 404 page.
C6_Witness ==
    /\ Answered
    /\ call.op = "add_code_example"
    /\ http = Value(Response(404, "<html>Not Found</html>"))
    /\ result = Returned("Error: 404 - <html>Not Found</html>")

\* C7: a transport failure, an error HTTP status (4xx, 5xx) and a malformed
\* serialized-array argument each give a returned string that begins with
\* "Error"; a success result (2xx, JSON body, for get_student_notes a
\* payload with the expected shape) never begins with "Error".
C7_ErrorPrefixIffFailure ==
    /\ (TransportFailed \/ (Answered /\ StatusIn(400, 599)) \/ (Done /\ MalformedLessonCall))
          => (result.kind = "return" /\ StartsWith(result.val, "Error"))
    /\ (Answered /\ StatusIn(200, 299) /\ http.val.text \in JsonBodies
          /\ (call.op = "get_student_notes" =>
                 WellShapedProgress(Loads(http.val.text).val, call.args.topic_id)))
          => (result.kind = "return" /\ ~StartsWith(result.val, "Error"))

\* A success whose JSON body is itself a string starting with "Error".
C7_Witness ==
    /\ Answered
    /\ call.op = "get_lessons"
    /\ http = Value(Response(200, "\"Error: 7\""))
    /\ result = Returned("\"Error: 7\"")

\* C8: get_student_notes(X), when the progress request succeeds and the
\* payload has no entry for topic X, returns the pretty-printed object
\* {"topicId": X, "notes": "", "hasNotes": false}.
C8_NotesOfMissingTopic ==
    (Answered /\ call.op = "get_student_notes" /\ StatusIn(200, 299)
        /\ http.val.text \in JsonBodies
        /\ LacksTopic(Loads(http.val.text).val, call.args.topic_id)) =>
        result = Returned("{\n  \"topicId\": \"" \o call.args.topic_id
                          \o "\",\n  \"notes\": \"\",\n  \"hasNotes\": false\n}")

\* The payload has notes for X only and the notes of game-loop are asked for.
C8_Witness ==
    /\ Answered
    /\ call.op = "get_student_notes"
    /\ call.args.topic_id = "game-loop"
    /\ http = Value(Response(200, "{\"topics\": {\"X\": {\"notes\": \"hi\"}}}"))
    /\ result = Returned("{\n  \"topicId\": \"game-loop\",\n  \"notes\": \"\",\n  \"hasNotes\": false\n}")

\* C9: add_lesson, given concepts, exercises and connections that are each a
\* serialized array of strings, sends a POST whose content.concepts,
\* content.exercises and content.connections are the parsed lists: the same
\* elements in the same order.
C9_ListsTransmitted ==
    (call.op = "add_lesson" /\ IsSerializedList(call.args.concepts)
        /\ IsSerializedList(call.args.exercises)
        /\ IsSerializedList(call.args.connections)) =>
        /\ Len(sent) = 1
        /\ sent[1].method = "POST"
        /\ TransmitsAs(call.args.concepts, Lookup(LessonContent.dict, "concepts"))
        /\ TransmitsAs(call.args.exercises, Lookup(LessonContent.dict, "exercises"))
        /\ TransmitsAs(call.args.connections, Lookup(LessonContent.dict, "connections"))

\* '["a","b"]' is transmitted as a two-element list.
C9_Witness ==
    /\ call.op = "add_lesson"
    /\ call.args.concepts = PyStr("[\"a\",\"b\"]")
    /\ Len(sent) = 1
    /\ Lookup(LessonContent.dict, "concepts") = PyList(<<PyStr("a"), PyStr("b")>>)
    /\ Lookup(LessonContent.dict, "exercises") = PyList(<<PyStr("e1"), PyStr("e2")>>)
    /\ Lookup(LessonContent.dict, "connections") = PyList(<<PyStr("signals")>>)

\* C10: add_lesson, when one of concepts, exercises or connections is a
\* string that is not valid JSON, returns an error string and raises nothing.
C10_MalformedListIsErrorString ==
    (Done /\ MalformedLessonCall) =>
        /\ result.kind = "return"
        /\ StartsWith(result.val, "Error: ")

\* concepts = "not json"
C10_Witness ==
    /\ Done
    /\ call.op = "add_lesson"
    /\ call.args.concepts = PyStr("not json")
    /\ result = Returned("Error: Expecting value: line 1 column 1 (char 0)")

\* v is a Python list whose elements are all strings.
IsListOfStr(v) ==
    /\ DOMAIN v = {"list"}
    /\ \A i \in 1..Len(v.list) : IsStr(v.list[i])

\* C11: every POST issued by add_lesson carries content.concepts,
\* content.exercises and content.connections as arrays of strings, whatever
\* accepted argument strings it was built from.
C11_PostedListsAreArraysOfStrings ==
    (call.op = "add_lesson" /\ Len(sent) = 1) =>
        /\ sent[1].method = "POST"
        /\ IsListOfStr(Lookup(LessonContent.dict, "concepts"))
        /\ IsListOfStr(Lookup(LessonContent.dict, "exercises"))
        /\ IsListOfStr(Lookup(LessonContent.dict, "connections"))

\* The URL get_lessons(t) is documented to request.
LessonsUrl(base, t) ==
    IF t = "" THEN base \o "/api/letta/lessons"
    ELSE base \o "/api/letta/lessons?topicId=" \o t

\* C12: get_lessons with no topic id (the empty string, its default)
\* requests {base}/api/letta/lessons with no query parameter; with a
\* non-empty topic id t it requests {base}/api/letta/lessons?topicId=t.
C12_LessonsUrl ==
    call.op = "get_lessons" =>
        /\ sent = <<Get(LessonsUrl(app_url, call.args.topic_id))>>
        /\ call.args.topic_id = "" => ~Contains(sent[1].url, "?")
        /\ call.args.topic_id = "game-loop" =>
               sent[1].url = app_url \o "/api/letta/lessons?topicId=game-loop"

\* get_lessons() against the default address: no query.
C12_Witness ==
    /\ call.op = "get_lessons"
    /\ call.args.topic_id = ""
    /\ sent = <<Get("http://localhost:5173/api/letta/lessons")>>

\* C13: each handler resolves the base address when the call starts, from
\* LEARNING_APP_URL, using http://localhost:5173 when it is unset: whatever
\* changes of the variable come before or during the call, the request goes
\* to the value the variable has at the step that starts the call.
C13_BaseResolvedAtCallStart ==
    [][/\ (pc = "idle" /\ pc' # "idle") =>
            /\ app_url' = (IF environ.set THEN environ.val
                           ELSE "http://localhost:5173")
            /\ \A i \in 1..Len(sent') : StartsWith(sent'[i].url, app_url' \o "/api/")
       /\ (pc # "idle" /\ pc' # "idle") => (app_url' = app_url /\ sent' = sent)
      ]_vars

\* The variable was unset after a call had started against http://app:8080.
C13_Witness ==
    /\ pc = "waiting"
    /\ environ = [set |-> FALSE]
    /\ call.op = "get_topics"
    /\ sent = <<Get("http://app:8080/api/letta?action=topics")>>

\* The outcome is a failure: an exception of the transport, an error status,
\* or a body that is not JSON.
FailedOutcome(h) ==
    \/ Raised(h)
    \/ (400 <= h.val.status_code /\ h.val.status_code <= 599)
    \/ h.val.text \in NonJsonBodies

\* C15: a failure inside an invocation is terminal for that call: the step
\* in which the request fails ends the handler with an error string and
\* without another request; a request is only ever sent by the step that
\* starts an invocation.
C15_FailureIsTerminal ==
    [][/\ (pc = "waiting" /\ http' # http /\ FailedOutcome(http')) =>
            /\ pc' = "done"
            /\ sent' = sent
            /\ result'.kind = "return"
            /\ StartsWith(result'.val, "Error")
       /\ sent' # sent => \/ (pc = "idle" /\ Len(sent') = 1)
                          \/ (pc = "done" /\ pc' = "idle" /\ sent' = <<>>)
       /\ Done => (pc' = "idle" \/ UNCHANGED <<pc, call, sent, http, result>>)
      ]_vars

\* get_recent_conversations timed out: one request, the error string.
C15_Witness ==
    /\ TransportFailed
    /\ call.op = "get_recent_conversations"
    /\ Len(sent) = 1
    /\ result = Returned("Error connecting to learning app at http://localhost:5173: Read timed out.")

RECURSIVE Find(_, _, _)
\* The first position >= i of the character c in s, Len(s) when there is none.
Find(s, c, i) == IF i >= Len(s) \/ Ch(s, i) = c THEN i ELSE Find(s, c, i + 1)

RECURSIVE Split(_, _)
\* The pieces of s between the occurrences of the character c.
Split(s, c) ==
    LET j == Find(s, c, 0) IN
    IF j >= Len(s) THEN <<s>>
    ELSE <<Slice(s, 0, j)>> \o Split(Slice(s, j + 1, Len(s)), c)

\* The URL up to its first "?" and the query after it.
PathOf(url) == Slice(url, 0, Find(url, "?", 0))
QueryOf(url) ==
    LET j == Find(url, "?", 0) IN
    IF j >= Len(url) THEN "" ELSE Slice(url, j + 1, Len(url))

\* The parameters of a query string, in order, as <<name, value>> pairs.
QueryParameters(query) ==
    LET parts == Split(query, "&") IN
    [i \in 1..Len(parts) |->
        LET j == Find(parts[i], "=", 0) IN
        IF j >= Len(parts[i]) THEN <<parts[i], "">>
        ELSE <<Slice(parts[i], 0, j), Slice(parts[i], j + 1, Len(parts[i]))>>]

\* C17: each read operation sends its GET to the documented URL; the query
\* of get_conversation_details(id) has exactly the two parameters action and
\* topicId, with topicId equal to id, for every string id.
C17_ReadUrls ==
    /\ call.op = "get_topics" =>
           sent = <<Get(app_url \o "/api/letta?action=topics")>>
    /\ call.op = "get_recent_conversations" =>
           sent = <<Get(app_url \o "/api/letta?action=notebooks")>>
    /\ call.op = "get_current_extensions" =>
           sent = <<Get(app_url \o "/api/letta?action=extensions")>>
    /\ call.op = "get_student_progress" =>
           sent = <<Get(app_url \o "/api/progress")>>
    /\ call.op = "get_conversation_details" =>
           /\ Len(sent) = 1
           /\ sent[1].method = "GET"
           /\ PathOf(sent[1].url) = app_url \o "/api/letta"
           /\ QueryParameters(QueryOf(sent[1].url))
                  = << <<"action", "notebook">>, <<"topicId", call.args.topic_id>> >>

\* The keys of a Python dict.
Keys(d) == {d.dict[i][1] : i \in 1..Len(d.dict)}

\* The JSON body has exactly the given fields, each a string with the given
\* value (fields is a record of strings).
HasExactlyFields(json, fields) ==
    /\ IsDict(json)
    /\ Keys(json) = DOMAIN fields
    /\ \A k \in DOMAIN fields : Lookup(json.dict, k) = PyStr(fields[k])

\* C18: add_resource POSTs to {base}/api/letta a body with exactly the fields
\* action = "add_resource", topicId, title, url, type, and add_code_example
\* POSTs to the same URL a body with exactly action = "add_code_example",
\* topicId, title, language, code, explanation; every field is the argument
\* as it was passed, whatever the type or language.
C18_WriteBodies ==
    /\ call.op = "add_resource" =>
           /\ Len(sent) = 1
           /\ sent[1].method = "POST"
           /\ sent[1].url = app_url \o "/api/letta"
           /\ HasExactlyFields(sent[1].json,
                  [action |-> "add_resource", topicId |-> call.args.topic_id,
                   title |-> call.args.title, url |-> call.args.url,
                   type |-> call.args.resource_type])
    /\ call.op = "add_code_example" =>
           /\ Len(sent) = 1
           /\ sent[1].method = "POST"
           /\ sent[1].url = app_url \o "/api/letta"
           /\ HasExactlyFields(sent[1].json,
                  [action |-> "add_code_example", topicId |-> call.args.topic_id,
                   title |-> call.args.title, language |-> call.args.language,
                   code |-> call.args.code, explanation |-> call.args.explanation])

\* A resource of a type outside the documented four is posted as it is.
C18_Witness ==
    /\ call.op = "add_resource"
    /\ call.args.resource_type = "podcast"
    /\ Len(sent) = 1
    /\ Lookup(sent[1].json.dict, "type") = PyStr("podcast")

\* The payload is an object whose topics[topic_id].notes is a string.
HasTextNotes(payload, topic_id) ==
    /\ IsDict(payload)
    /\ HasKey(payload.dict, "topics")
    /\ IsDict(Lookup(payload.dict, "topics"))
    /\ HasKey(Lookup(payload.dict, "topics").dict, topic_id)
    /\ IsDict(Lookup(Lookup(payload.dict, "topics").dict, topic_id))
    /\ HasKey(Lookup(Lookup(payload.dict, "topics").dict, topic_id).dict, "notes")
    /\ IsStr(Lookup(Lookup(Lookup(payload.dict, "topics").dict, topic_id).dict, "notes"))

\* payload.topics[topic_id].notes
NotesIn(payload, topic_id) ==
    Lookup(Lookup(Lookup(payload.dict, "topics").dict, topic_id).dict, "notes")

\* s has a character that is not whitespace.
HasNonWhitespace(s) == \E i \in 0..(Len(s) - 1) : Ch(s, i) \notin WS

\* C19: get_student_notes(t) performs a single GET of {base}/api/progress;
\* when the request succeeds with a payload that has text notes for t, the
\* result is the object with topicId = t, notes = the payload's
\* topics[t].notes unchanged, and hasNotes = true exactly when those notes
\* have a non-whitespace character.
C19_NotesProjection ==
    call.op = "get_student_notes" =>
        /\ sent = <<Get(app_url \o "/api/progress")>>
        /\ (Answered /\ StatusIn(200, 299) /\ http.val.text \in JsonBodies
               /\ HasTextNotes(Loads(http.val.text).val, call.args.topic_id)) =>
              /\ result.kind = "return"
              /\ ~Raised(Loads(result.val))
              /\ LET out == Loads(result.val).val
                     notes == NotesIn(Loads(http.val.text).val, call.args.topic_id)
                 IN /\ IsDict(out)
                    /\ Keys(out) = {"topicId", "notes", "hasNotes"}
                    /\ Lookup(out.dict, "topicId") = PyStr(call.args.topic_id)
                    /\ Lookup(out.dict, "notes") = notes
                    /\ Lookup(out.dict, "hasNotes") = PyBool(HasNonWhitespace(notes.str))

\* The notes of X are blanks and a newline: returned as they are, hasNotes false.
C19_Witness ==
    /\ Answered
    /\ call.op = "get_student_notes"
    /\ call.args.topic_id = "X"
    /\ http = Value(Response(200, "{\"topics\": {\"X\": {\"notes\": \" \\n\"}}}"))
    /\ result = Returned("{\n  \"topicId\": \"X\",\n  \"notes\": \" \\n\",\n  \"hasNotes\": false\n}")

\* The call is an add_lesson with a serialized-array argument that is not JSON.
MalformedCall(c) ==
    /\ c.op = "add_lesson"
    /\ \/ Unparsable(c.args.concepts)
       \/ Unparsable(c.args.exercises)
       \/ Unparsable(c.args.connections)

\* Thread t runs (or has just run) a write operation.
Writes(t) == threads[t].call.op \in WriteOps

\* Threads t and u have both run the same write, with the same arguments,
\* against the same base address, to its end.
SameWriteTwice(t, u) ==
    /\ t # u
    /\ Writes(t)
    /\ threads[t].pc = "done"
    /\ threads[u].pc = "done"
    /\ threads[u].call = threads[t].call
    /\ threads[u].app_url = threads[t].app_url

\* C14 (as stated): a write operation issues only a POST, no GET or other
\* read before or after it, and the same write called twice with the same
\* arguments sends two identical POSTs.
C14_SameWriteTwiceTwoPosts ==
    \A t \in Threads :
        /\ Writes(t) => \A i \in 1..Len(threads[t].sent) :
                            threads[t].sent[i].method = "POST"
        /\ \A u \in Threads :
              SameWriteTwice(t, u) =>
                  /\ Len(threads[t].sent) = 1
                  /\ threads[u].sent = threads[t].sent

\* C14 (amended): a write operation issues only a POST, no GET or other read
\* before or after it; the same write called twice with the same arguments
\* sends two identical POSTs, except an add_lesson whose list argument is not
\* JSON, which sends nothing either time.
C14_WritesOnlyPost ==
    \A t \in Threads :
        /\ Writes(t) => \A i \in 1..Len(threads[t].sent) :
                            threads[t].sent[i].method = "POST"
        /\ (Writes(t) /\ threads[t].pc = "done") =>
              Len(threads[t].sent) = (IF MalformedCall(threads[t].call) THEN 0 ELSE 1)
        /\ \A u \in Threads :
              SameWriteTwice(t, u) => threads[u].sent = threads[t].sent

\* add_resource was called twice with the same arguments: two equal POSTs.
C14_Witness ==
    /\ SameWriteTwice(1, 2)
    /\ threads[1].call.op = "add_resource"
    /\ Len(threads[1].sent) = 1
    /\ threads[1].sent[1].method = "POST"
    /\ threads[2].sent = threads[1].sent

\* What the invocation in frame f sends and returns when it runs alone.
AloneSent(f) ==
    LET r == Request(f.call, f.app_url) IN
    IF Raised(r) THEN <<>> ELSE <<r.val>>
AloneResult(f) ==
    Result(f.call, f.app_url,
           IF f.sent = <<>> THEN Request(f.call, f.app_url) ELSE f.http)

\* C16: invocations share no mutable state: in every interleaving, a step of
\* one invocation leaves the frames of the others as they are; an
\* invocation's request is built from its own arguments and the base address
\* at its start, both of which then stay; and its returned string is the one
\* the same call gives alone for the same base address and HTTP outcome.
C16_InvocationsIndependent ==
    [][\A t \in Threads :
        /\ threads'[t] # threads[t] =>
               \A u \in Threads \ {t} : threads'[u] = threads[u]
        /\ (threads[t].pc = "idle" /\ threads'[t].pc # "idle") =>
               /\ threads'[t].app_url = (IF environ.set THEN environ.val
                                         ELSE "http://localhost:5173")
               /\ threads'[t].sent = AloneSent(threads'[t])
        /\ (threads[t].pc # "idle" /\ threads'[t].pc # "idle") =>
               /\ threads'[t].call = threads[t].call
               /\ threads'[t].app_url = threads[t].app_url
               /\ threads'[t].sent = threads[t].sent
        /\ (threads[t].pc # "done" /\ threads'[t].pc = "done") =>
               threads'[t].result = AloneResult(threads'[t])
        /\ (threads[t].pc = "done" /\ threads'[t].pc = "done") =>
               threads'[t].result = threads[t].result
      ]_vars

\* Two invocations against different base addresses have both ended, each
\* with the string of its own outcome.
C16_Witness ==
    /\ threads[1].pc = "done"
    /\ threads[2].pc = "done"
    /\ threads[1].call.op = "get_topics"
    /\ threads[1].result =
          Returned("Error connecting to learning app at http://localhost:5173: Connection refused")
    /\ threads[2].call.op = "add_resource"
    /\ threads[2].app_url = "http://app:8080"
    /\ threads[2].result = Returned("Error: 404 - <html>Not Found</html>")

\* main() has taken its branch.
MainRan == cli.pc \in {"interactive", "exited"} /\ cli.mode # "none"

\* A Curator id was loaded.
CuratorLoaded == IsStr(cli.CURATOR_ID) /\ cli.CURATOR_ID.str # ""

\* An argument that is no option.
Positional(w) == ~StartsWith(w, "-")

\* The first --curate of the arguments is followed by the topic.
CurateFollowedBy(topic) ==
    \E i \in 1..(Len(argv) - 1) :
        /\ argv[i] = "--curate"
        /\ \A j \in 1..(i - 1) : argv[j] # "--curate"
        /\ argv[i + 1] = topic
        /\ Positional(topic)

\* The run was one-shot: no input was read, and the script has ended having
\* sent the message (when given) and nothing else.
OneShot(messages) == stdin = 0 /\ cli.pc = "exited" /\ outbox = messages

\* The run is the interactive chat with the agent of that name and id.
InteractiveWith(agent_name, agent_id) ==
    /\ cli.agent_name = agent_name
    /\ cli.agent_id = agent_id
    /\ \E i \in 1..Len(stdout) : stdout[i] = "Interactive mode with " \o agent_name \o "."

\* C20: main selects one mode per run from its arguments, as the usage text
\* states: no arguments, the interactive chat with Gideon; --curate and a
\* topic, the curation of that topic; --curate alone, the full curation;
\* --curator, the interactive chat with Curator; --analyze, the progress
\* analysis; positional words and none of these options, one message to
\* Gideon made of the words.  (The modes of the Curator take effect when a
\* Curator id was loaded.)
C20_ModeFromArguments ==
    MainRan =>
        /\ argv = <<>> =>
               /\ cli.mode = "interactive"
               /\ InteractiveWith("Gideon", cli.GIDEON_ID)
        /\ \A topic \in ArgWords :
               CurateFollowedBy(topic) =>
                   /\ cli.mode = "curate_topic"
                   /\ CuratorLoaded =>
                          OneShot(<<[agent_id |-> cli.CURATOR_ID,
                                     content |-> "Please curate content specifically for the topic: "
                                                    \o topic]>>)
        /\ (In("--curate", argv) /\ ~\E topic \in ArgWords : CurateFollowedBy(topic)) =>
               /\ cli.mode = "curate_all"
               /\ CuratorLoaded =>
                      OneShot(<<[agent_id |-> cli.CURATOR_ID, content |-> CurateAllPrompt]>>)
        /\ (In("--curator", argv) /\ ~In("--curate", argv)) =>
               /\ cli.mode = "curator"
               /\ CuratorLoaded => InteractiveWith("Curator", cli.CURATOR_ID)
        /\ (In("--analyze", argv) /\ ~In("--curate", argv) /\ ~In("--curator", argv)) =>
               /\ cli.mode = "analyze_progress"
               /\ CuratorLoaded =>
                      OneShot(<<[agent_id |-> cli.CURATOR_ID, content |-> AnalyzePrompt]>>)
        /\ (argv # <<>> /\ \A i \in 1..Len(argv) : Positional(argv[i])) =>
               /\ cli.mode = "send_message"
               /\ OneShot(<<[agent_id |-> cli.GIDEON_ID, content |-> Join(" ", argv)]>>)

\* python chat_with_agent.py --curate game-loop, with both agents set up.
C20_Witness ==
    /\ argv = <<"--curate", "game-loop">>
    /\ cli.pc = "exited"
    /\ cli.status = 0
    /\ cli.mode = "curate_topic"
    /\ outbox = <<[agent_id |-> PyStr("agent-c"),
                   content |-> "Please curate content specifically for the topic: game-loop"]>>

\* A step of the interactive loop that read a line (and was not interrupted).
LineRead ==
    /\ cli.pc = "interactive"
    /\ stdin' = stdin + 1
    /\ stdout' # Append(stdout, "Goodbye!")

\* The messages the step sent.
NewMessages == SubSeq(outbox', Len(outbox) + 1, Len(outbox'))

\* The step sent that one message.
SentOnly(agent_id, content) ==
    NewMessages = <<[agent_id |-> agent_id, content |-> content]>>

\* The trimmed line is the word, in any case.
IsCommand(line, word) == Lower(line) = word

\* The trimmed line is 'curate', a blank, and more.
IsCurateTopic(line) == Len(line) > 7 /\ IsCommand(SubSeq(line, 1, 7), "curate ")

\* C21: in the interactive loop a trimmed input line causes at most one
\* message: the empty line none; 'quit' none, and it ends the loop, after
\* which nothing is read or sent; 'curate' and 'analyze' in any case the
\* full-curation and the analysis prompt, to Curator and not to the agent of
\* the session; 'curate <topic>' the topic-curation prompt of <topic>, to
\* Curator; every other line the line itself, to the agent of the session.
\* (Curator is addressed when a Curator id was loaded.)
C21_InteractiveLoop ==
    [][ /\ cli.pc = "exited" => (stdin' = stdin /\ outbox' = outbox)
        /\ LineRead =>
              LET line == cli'.user_input IN
              /\ Len(outbox') <= Len(outbox) + 1
              /\ SubSeq(outbox', 1, Len(outbox)) = outbox
              /\ line = "" => (NewMessages = <<>> /\ cli'.pc = "interactive")
              /\ IsCommand(line, "quit") => (NewMessages = <<>> /\ cli'.pc = "exited")
              /\ (IsCommand(line, "curate") /\ CuratorLoaded) =>
                     SentOnly(cli.CURATOR_ID, CurateAllPrompt)
              /\ (IsCommand(line, "analyze") /\ CuratorLoaded) =>
                     SentOnly(cli.CURATOR_ID, AnalyzePrompt)
              /\ (IsCurateTopic(line) /\ CuratorLoaded) =>
                     SentOnly(cli.CURATOR_ID,
                              "Please curate content specifically for the topic: "
                                  \o Strip(SubSeq(line, 8, Len(line))))
              /\ (/\ line # ""
                  /\ \A word \in {"quit", "curate", "analyze"} : ~IsCommand(line, word)
                  /\ ~IsCurateTopic(line)) =>
                     SentOnly(cli.agent_id, line) ]_vars

\* In the chat with Gideon, 'curate  signals ' was typed: the prompt for the
\* topic signals went to Curator.
C21_Witness ==
    /\ cli.pc = "interactive"
    /\ cli.agent_name = "Gideon"
    /\ cli.user_input = "curate  signals"
    /\ outbox = <<[agent_id |-> PyStr("agent-c"),
                   content |-> "Please curate content specifically for the topic: signals"]>>

\* The step printed the notice and nothing else, and sent nothing.
OnlyNotice ==
    /\ outbox' = outbox
    /\ stdout' = Append(stdout, "Curator agent not available. Run setup_agents.py first.")

\* C22: when no Curator id is available, the full curation, the curation of
\* a topic and the progress analysis send no message and only print the
\* notice 'Curator agent not available', from the command line and from the
\* interactive loop alike, and --curator exits with status 1 without
\* entering the loop.
C22_NoCuratorNoMessage ==
    [][ ~CuratorLoaded =>
          /\ (/\ cli.pc = "main"
              /\ \/ In("--curate", argv)
                 \/ In("--analyze", argv) /\ ~In("--curator", argv)) =>
                 (OnlyNotice /\ cli'.pc = "exited")
          /\ (cli.pc = "main" /\ In("--curator", argv) /\ ~In("--curate", argv)) =>
                 /\ OnlyNotice
                 /\ cli'.pc = "exited"
                 /\ cli'.status = 1
          /\ (/\ LineRead
              /\ \/ IsCommand(cli'.user_input, "curate")
                 \/ IsCommand(cli'.user_input, "analyze")
                 \/ IsCurateTopic(cli'.user_input)) =>
                 (OnlyNotice /\ cli'.pc = "interactive") ]_vars

\* Only agent_id.txt exists and python chat_with_agent.py --curator was run.
C22_Witness ==
    /\ ~agent_files.json.exists
    /\ agent_files.txt.exists
    /\ argv = <<"--curator">>
    /\ cli.pc = "exited"
    /\ cli.status = 1
    /\ stdin = 0
    /\ outbox = <<>>
    /\ stdout[Len(stdout)] = "Curator agent not available. Run setup_agents.py first."

\* The module-level code of chat_with_agent.py has run.
IdsResolved == cli.pc \in {"main", "interactive", "exited"}

\* The entries of the agent_ids.json files that are explored.
EntriesOf(text) ==
    CASE text = "{\"gideon\": \"agent-g\", \"curator\": \"agent-c\"}" ->
            [gideon |-> PyStr("agent-g"), curator |-> PyStr("agent-c")]
      [] text = "{\"gideon\": \"agent-g\"}" ->
            [gideon |-> PyStr("agent-g"), curator |-> PyNone]
      [] text = "{\"curator\": \"agent-c\"}" ->
            [gideon |-> PyNone, curator |-> PyStr("agent-c")]

\* C23: the agent ids are resolved with a fixed precedence: when
\* agent_ids.json exists, GIDEON_ID and CURATOR_ID are its 'gideon' and
\* 'curator' entries, also when agent_id.txt exists; when only agent_id.txt
\* exists, GIDEON_ID is its trimmed content and CURATOR_ID is unset; when
\* neither exists the script exits with status 1 and has sent no message.
C23_IdPrecedence ==
    IdsResolved =>
        /\ agent_files.json.exists =>
               /\ cli.GIDEON_ID = EntriesOf(agent_files.json.text).gideon
               /\ cli.CURATOR_ID = EntriesOf(agent_files.json.text).curator
        /\ (~agent_files.json.exists /\ agent_files.txt.exists) =>
               /\ agent_files.txt.text = "agent-old\n" => cli.GIDEON_ID = PyStr("agent-old")
               /\ cli.CURATOR_ID = PyNone
        /\ (~agent_files.json.exists /\ ~agent_files.txt.exists) =>
               /\ cli.pc = "exited"
               /\ cli.status = 1
               /\ outbox = <<>>

\* Both files exist, and the ids of agent_ids.json are in use.
C23_Witness ==
    /\ agent_files.json.exists
    /\ agent_files.txt.exists
    /\ agent_files.txt.text = "agent-old\n"
    /\ cli.pc = "main"
    /\ cli.GIDEON_ID = PyStr("agent-g")
    /\ cli.CURATOR_ID = PyStr("agent-c")

SetupAgentCompleted ==
    /\ setup.pc = "exited"
    /\ setup.script = "setup_agent.py"
    /\ setup.status = 0

\* C25: after setup_agent.py has completed, a following run of
\* chat_with_agent.py addresses the messages for Gideon to the agent that
\* setup_agent.py just created: GIDEON_ID is the id it saved, whatever runs
\* of setup_agent.py and setup_agents.py came before in the directory.
C25_ChatUsesNewAgent ==
    [][ (cli.pc = "load" /\ SetupAgentCompleted) =>
            cli'.GIDEON_ID = PyStr(setup.agents[1].id) ]_vars

\* The check got a response with a success status.
Success(check) ==
    /\ ~Raised(check)
    /\ check.val # PyNone
    /\ check.val.status_code < 400

\* The check got a response with an error status.
ErrorStatus(check) ==
    /\ ~Raised(check)
    /\ check.val # PyNone
    /\ check.val.status_code >= 400

\* The script s is creating, or has created, something on the server.
Creates(s) ==
    /\ s.pc # "not started"
    /\ \/ s.pc \in {"blocks", "tools", "agent", "gideon", "curator", "save", "test"}
       \/ s.blocks # <<>>
       \/ s.tools # <<>>
       \/ s.agents # <<>>

\* C26: in both setup scripts no tool, memory block or agent is created
\* unless the health check of Letta returned a success status, and the
\* script exits with status 1 otherwise; when the check of the learning app
\* raises, the creation proceeds only after the user has answered y; when
\* it returns an error status, the creation proceeds without a question.
C26_ChecksBeforeCreation ==
    [][ /\ Creates(setup') => Success(setup'.letta_check)
        /\ setup.pc = "check_letta" =>
              \/ Success(setup'.letta_check)
              \/ setup'.pc = "exited" /\ setup'.status = 1 /\ letta' = letta
        /\ (setup.pc = "check_app" /\ Raised(setup'.app_check)) =>
              /\ setup'.asked = <<"Continue anyway? (y/n): ">>
              /\ Creates(setup') => setup'.proceed = "y"
              /\ ~Creates(setup') => (setup'.pc = "exited" /\ setup'.status = 1)
        /\ (setup.pc = "check_app" /\ ErrorStatus(setup'.app_check)) =>
              /\ setup'.asked = <<>>
              /\ Creates(setup') ]_vars

\* setup_agents.py could not reach the learning app, the user answered y,
\* and both agents were created.
C26_Witness ==
    /\ setup.pc = "save"
    /\ setup.script = "setup_agents.py"
    /\ Raised(setup.app_check)
    /\ setup.proceed = "y"
    /\ Len(setup.agents) = 2

\* The names of the catalogue of the script that the server accepts, in the
\* order of the catalogue.
Accepted(script) ==
    LET accepts(name) == name \notin letta.rejects IN
    SelectSeq(tool_factories(script), accepts)

\* The number of agents the script creates.
AgentsOf(script) == IF script = "setup_agents.py" THEN 2 ELSE 1

\* C27: in both setup scripts a tool that cannot be registered is not
\* fatal: the loop goes on with the next tool and every agent is created
\* all the same, its tool list being the names of the tools that were
\* registered, in the order of the catalogue, followed by web_search (and
\* web_search alone when no tool could be registered).
C27_FailedToolNotFatal ==
    [][ /\ setup.pc = "tools" =>
              /\ setup'.i = setup.i + 1
              /\ setup'.pc \in {"tools", "agent", "gideon"}
              /\ setup'.pc = "tools" <=> setup.i < Len(tool_factories(setup.script))
        /\ setup'.pc \in {"save", "test"} =>
              /\ Len(setup'.agents) = AgentsOf(setup'.script)
              /\ \A k \in 1..Len(setup'.agents) :
                    setup'.agents[k].tools = Accepted(setup'.script) \o <<"web_search">> ]_vars

\* setup_agent.py ran while the server rejected two of the six tools.
C27_Witness ==
    /\ setup.pc = "test"
    /\ setup.script = "setup_agent.py"
    /\ letta.rejects = {"get_current_extensions", "add_resource"}
    /\ setup.agents[1].tools = <<"get_topics", "get_recent_conversations",
                                 "get_conversation_details", "add_code_example",
                                 "web_search">>

\* Both handlers have returned.
TwinDone == pc = "done" /\ factory.pc = "done"

\* The two strings are the same, or are the connection-error messages of
\* the two handlers for the same exception, which differ in ' at <url>'.
SameButUrl(s, t, url) ==
    \/ s = t
    \/ \E n \in 0..Len(t) :
          /\ s = "Error connecting to learning app at " \o url \o ": "
                     \o SubSeq(t, Len(t) - n + 1, Len(t))
          /\ t = "Error connecting to learning app: " \o SubSeq(t, Len(t) - n + 1, Len(t))

\* C29: for each of the ten operations the handler of tools.py and the
\* handler that the matching factory of setup_agents.py builds are
\* equivalent: with the same arguments, base address and outcome of the
\* request they send the same request and return the same string, but for
\* the ' at <url>' of the connection-error message.
C29_HandlersEquivalent ==
    TwinDone =>
        /\ factory.sent = sent
        /\ result.kind = "return"
        /\ factory.result.kind = "return"
        /\ SameButUrl(result.val, factory.result.val, app_url)

\* One of the three serialized arrays of the call is a text that json.loads
\* rejects.
ArrayFailsToParse ==
    /\ call.op = "add_lesson"
    /\ \E f \in {"concepts", "exercises", "connections"} :
          /\ IsStr(call.args[f])
          /\ call.args[f].str \in {"not json", "[\"e1\"", "[1,"}

\* C28: add_lesson sends no HTTP request at all when one of its three
\* serialized arrays fails to parse: the three are parsed before the POST
\* is issued, in the handler of tools.py and in the one the factory builds.
C28_NoRequestOnParseFailure ==
    ArrayFailsToParse =>
        /\ sent = <<>>
        /\ factory.sent = <<>>
        /\ pc # "waiting"
        /\ factory.pc # "waiting"

\* Only connections, the last of the three to be parsed, is malformed.
C28_Witness ==
    /\ TwinDone
    /\ call = LessonWith(PyStr("[\"a\"]"), PyStr("[]"), PyStr("[1,"))
    /\ sent = <<>>
    /\ factory.sent = <<>>
    /\ StartsWith(result.val, "Error: Expecting value")
    /\ factory.result = result

====
